---- MODULE Spec2Model ----
(***************************************************************************)
(* TradingView webhook order router (main.py) and its position-sizing      *)
(* engine (kelly.py).                                                      *)
(*                                                                         *)
(* Conventions                                                             *)
(*   - a Python str is a sequence of characters; a character is a one      *)
(*     element token ("K", "-", "5", ...); "U+00B2" and "U+0663" stand for *)
(*     SUPERSCRIPT TWO and ARABIC-INDIC DIGIT THREE, two characters for    *)
(*     which str.isdigit() is true although they are not ASCII digits.     *)
(*   - fractions (Kelly fractions) are in percent: 0.40 is 40.             *)
(*   - KRW amounts handed to kelly.py are whole KRW; amounts it returns    *)
(*     are in 1/100 KRW (jeon), so available_krw * fraction is exact.      *)
(*   - returns and volatilities are fixed point in units of 1e-5           *)
(*     (0.01 is 1000); a volatility is rounded up to the next unit, which  *)
(*     keeps every comparison "volatility <= k units" exact.               *)
(*   - the float NaN is the record field nan = TRUE.                       *)
(***************************************************************************)
EXTENDS Integers, Sequences, FiniteSets, TLC

\* ------------------------------------------------------------------ bounds

\* longest symbol string the classifier harness enumerates
MaxSymLen == 7
\* longest generated daily price history (rows of the fetched frame)
MaxHistLen == 4
\* available capital is enumerated around k * 2500 KRW for k up to this
MaxCapitalSteps == 4

\* ------------------------------------------------------- program constants

\* a default volatility just above the 0.02 boundary
DefaultVolatility_above == 2000 + 1

\* kelly.py: default volatility 0.02
DefaultVolatility == 2000
\* kelly.py: tier boundaries 0.01, 0.02, 0.03
TierLow == 1000
TierMid == 2000
TierHigh == 3000
\* kelly.py: tier fractions 0.40, 0.30, 0.20, 0.15
KellyLow == 40
KellyMid == 30
KellyElevated == 20
KellyHigh == 15
\* kelly.py: clamp band 0.10 .. 0.50
MinThreshold == 10
MaxThreshold == 50
\* kelly.py: minimum order 5000 KRW
MinOrderKrw == 5000
\* kelly.py: fallback fraction 0.25 of the except branch
SafeKelly == 25
\* kelly.py: base_kelly 0.25 and the volatility floor 0.005 of line 124
BaseKelly == 25
VolatilityFloor == 500
\* kelly.py: history window, 30 daily rows
HistoryDays == 30
\* kelly.py: a stock code has 6 digits
StockCodeLen == 6
\* a crypto minimum below the floor of the sizing
MinCryptoKrw_low == 1000 + 0
\* main.py: minimum balance of a crypto buy and of an equity buy
MinCryptoKrw == 5000
\* the equity minimum taken from the crypto one
MinStockKrw_crypto == 5000 + 0
MinStockKrw == 10000
\* main.py: trading hours 09:00 - 15:30
MarketOpenHour == 9
MarketCloseHour == 15
MarketCloseMinute == 30

\* 1 KRW in the unit of returned amounts (1/100 KRW)
Jeon == 10 * 10
\* 1.0 in the unit of returns and volatilities (1e-5)
VolScale == 100 * 1000

Max(a, b) == IF a >= b THEN a ELSE b
Min(a, b) == IF a <= b THEN a ELSE b

\* -------------------------------------------------------------- characters

AsciiDigits == {"0", "1", "2", "3", "4", "5", "6", "7", "8", "9"}
\* str.isdigit() is true for every character of Unicode category Nd or of
\* Numeric_Type=Digit: the ASCII digits and, among others, these two
UnicodeDigits == {"U+00B2", "U+0663"}

\* str.isdigit() on one character
IsDigitChar(c) == c \in AsciiDigits \cup UnicodeDigits

\* str.isdigit(): true iff the string is non-empty and all characters are digits
isdigit(s) == Len(s) > 0 /\ \A i \in 1..Len(s) : IsDigitChar(s[i])

\* "x in s" for a one-character x
HasChar(s, c) == \E i \in 1..Len(s) : s[i] = c

\* main.py detect_symbol_type
detect_symbol_type(symbol) ==
    IF Len(symbol) = 0 THEN "unknown"
    ELSE IF HasChar(symbol, "-") THEN "crypto"
    ELSE IF isdigit(symbol) /\ Len(symbol) = StockCodeLen THEN "stock"
    ELSE "unknown"

\* kelly.py _detect_symbol_type
_detect_symbol_type(symbol) ==
    IF Len(symbol) = 0 THEN "unknown"
    ELSE IF HasChar(symbol, "-") THEN "crypto"
    ELSE IF isdigit(symbol) /\ Len(symbol) = StockCodeLen THEN "stock"
    ELSE "unknown"

\* ------------------------------------------------------ volatility estimate

\* df[price_column].pct_change().dropna(): the change of each close against
\* the one before it; the first row has none and is dropped
pct_change(closes) ==
    [i \in 1..(Len(closes) - 1) |->
        ((closes[i + 1] - closes[i]) * VolScale) \div closes[i]]

RECURSIVE SumSeq(_)
SumSeq(s) == IF s = <<>> THEN 0 ELSE Head(s) + SumSeq(Tail(s))

RECURSIVE SqrtSearch(_, _, _)
\* least k in lo..hi with k * k >= x
SqrtSearch(lo, hi, x) ==
    IF lo >= hi THEN hi
    ELSE LET mid == (lo + hi) \div 2
         IN IF mid * mid >= x THEN SqrtSearch(lo, mid, x)
            ELSE SqrtSearch(mid + 1, hi, x)

CeilSqrt(x) == SqrtSearch(0, VolScale \div 2, x)

CeilDiv(a, b) == (a + b - 1) \div b

\* pandas Series.std(): the sample standard deviation (ddof = 1); NaN for
\* fewer than two values
std(returns) ==
    LET n == Len(returns)
        s == SumSeq(returns)
        q == SumSeq([i \in 1..n |-> returns[i] * returns[i]])
    IN IF n < 2 THEN [nan |-> TRUE, v |-> 0]
       ELSE [nan |-> FALSE,
             v |-> CeilSqrt(CeilDiv(n * q - s * s, n * (n - 1)))]

\* hist.tail(days) if len(hist) > days else hist
tail(closes, days) ==
    IF Len(closes) > days
    THEN SubSeq(closes, Len(closes) - days + 1, Len(closes))
    ELSE closes

\* What the historical-data source answers (pyupbit.get_ohlcv, yfinance
\* Ticker.history):
\*   "error"      the call raises
\*   "empty"      None or a frame with no rows
\*   "nocolumn"   rows, but without the expected price column
\*   "rows"       rows with numeric closes
\*   "nonnumeric" rows whose price column holds non-numeric values, on which
\*                pct_change raises TypeError
FetchKinds == {"error", "empty", "nocolumn", "rows", "nonnumeric"}

EmptyFrame == [empty |-> TRUE, has_price |-> FALSE, numeric |-> TRUE, closes |-> <<>>]

Frame(fetch) ==
    [empty |-> Len(fetch.closes) = 0,
     has_price |-> fetch.kind # "nocolumn",
     numeric |-> fetch.kind # "nonnumeric",
     closes |-> fetch.closes]

\* kelly.py _get_crypto_candles: the frame, or an empty frame on None, on an
\* empty answer and on any exception
_get_crypto_candles(fetch) ==
    IF fetch.kind \in {"error", "empty"} \/ Len(fetch.closes) = 0
    THEN EmptyFrame
    ELSE Frame(fetch)

\* kelly.py _get_stock_history: as above, trimmed to the last `days` rows
_get_stock_history(fetch, days) ==
    IF fetch.kind \in {"error", "empty"} \/ Len(fetch.closes) = 0
    THEN EmptyFrame
    ELSE [Frame(fetch) EXCEPT !.closes = tail(fetch.closes, days)]

\* the tier lookup with the boundaries given to the upper tier
tier_kelly_open(volatility) ==
    IF ~volatility.nan /\ volatility.v < TierLow THEN KellyLow
    ELSE IF ~volatility.nan /\ volatility.v < TierMid THEN KellyMid
    ELSE IF ~volatility.nan /\ volatility.v < TierHigh THEN KellyElevated
    ELSE KellyHigh

\* kelly.py lines 108-120: the tier lookup; every comparison with NaN is false
tier_kelly_of(volatility) ==
    IF ~volatility.nan /\ volatility.v <= TierLow THEN KellyLow
    ELSE IF ~volatility.nan /\ volatility.v <= TierMid THEN KellyMid
    ELSE IF ~volatility.nan /\ volatility.v <= TierHigh THEN KellyElevated
    ELSE KellyHigh

tier_name_of(volatility) ==
    IF ~volatility.nan /\ volatility.v <= TierLow THEN "low"
    ELSE IF ~volatility.nan /\ volatility.v <= TierMid THEN "moderate"
    ELSE IF ~volatility.nan /\ volatility.v <= TierHigh THEN "elevated"
    ELSE "high"

\* kelly.py line 129: max(0.10, min(tier_kelly, 0.50))
clamp_kelly(tier_kelly) == Max(MinThreshold, Min(tier_kelly, MaxThreshold))

\* kelly.py lines 123-124: base_kelly * (0.02 / max(volatility, 0.005)), in
\* percent; max(nan, 0.005) is nan, and so is the quotient (here 0 with nan set)
volatility_adjusted_kelly(volatility) ==
    IF volatility.nan THEN 0
    ELSE (BaseKelly * DefaultVolatility) \div Max(volatility.v, VolatilityFloor)

\* kelly.py line 125: max(0.10, min(volatility_adjusted_kelly, 0.50)); with a
\* nan argument min() keeps the nan and max(0.10, nan) is 0.10
volatility_kelly_of(volatility) ==
    IF volatility.nan THEN MinThreshold
    ELSE Max(MinThreshold, Min(volatility_adjusted_kelly(volatility), MaxThreshold))

\* the fraction sized with, were the volatility-scaled fraction of line 124
\* used in place of the clamped tier fraction
kelly_fraction_unclamped(volatility) == volatility_adjusted_kelly(volatility)

\* kelly.py lines 108-129: the fraction the amount is sized with
kelly_fraction_of(volatility) == clamp_kelly(tier_kelly_of(volatility))

\* the sizing without its floor
final_amount_unfloored(available_krw, kelly_fraction) ==
    Min(available_krw * kelly_fraction, available_krw * Jeon)

\* kelly.py lines 130-132: amount in 1/100 KRW
final_amount_of(available_krw, kelly_fraction) ==
    Min(Max(available_krw * kelly_fraction, MinOrderKrw * Jeon), available_krw * Jeon)

\* the fallback amount capped at the capital
safe_amount_capped(available_krw) ==
    Min(Max(available_krw * SafeKelly, MinOrderKrw * Jeon), available_krw * Jeon)

\* kelly.py lines 159-162: the except branch
safe_amount_of(available_krw) ==
    Max(available_krw * SafeKelly, MinOrderKrw * Jeon)

\* kelly.py calculate_dynamic_kelly_fraction. symbol and volatility_symbol are
\* strings (volatility_symbol <<>> is None or ""), available_krw whole KRW,
\* fetch the answer of the data source should it be asked.
calculate_dynamic_kelly_fraction(symbol, available_krw, volatility_symbol, fetch) ==
    LET vol_symbol == IF Len(volatility_symbol) > 0 THEN volatility_symbol ELSE symbol
        symbol_type == _detect_symbol_type(vol_symbol)
        df == IF symbol_type = "crypto" THEN _get_crypto_candles(fetch)
              ELSE IF symbol_type = "stock" THEN _get_stock_history(fetch, HistoryDays)
              ELSE EmptyFrame
        fetches == IF symbol_type \in {"crypto", "stock"} THEN 1 ELSE 0
        usable == ~df.empty /\ df.has_price
        raises == usable /\ ~df.numeric
        volatility == IF usable THEN std(pct_change(df.closes))
                      ELSE [nan |-> FALSE, v |-> DefaultVolatility]
        tier_kelly == tier_kelly_of(volatility)
        kelly_fraction == kelly_fraction_of(volatility)
    IN IF raises
       THEN [amount |-> safe_amount_of(available_krw),
             method |-> "error",
             kelly_fraction |-> SafeKelly,
             volatility |-> [nan |-> TRUE, v |-> 0],
             tier_kelly |-> 0,
             volatility_kelly |-> 0,
             default_used |-> FALSE,
             fetches |-> fetches]
       ELSE [amount |-> final_amount_of(available_krw, kelly_fraction),
             method |-> tier_name_of(volatility),
             kelly_fraction |-> kelly_fraction,
             volatility |-> volatility,
             tier_kelly |-> tier_kelly,
             volatility_kelly |-> volatility_kelly_of(volatility),
             default_used |-> ~usable,
             fetches |-> fetches]

\* ------------------------------------------------------------ JSON and str

Upper == <<"A", "B", "C", "D", "E", "F", "G", "H", "I", "J", "K", "L", "M",
           "N", "O", "P", "Q", "R", "S", "T", "U", "V", "W", "X", "Y", "Z">>
LowerCase == <<"a", "b", "c", "d", "e", "f", "g", "h", "i", "j", "k", "l", "m",
               "n", "o", "p", "q", "r", "s", "t", "u", "v", "w", "x", "y", "z">>

LowerChar(c) ==
    IF \E i \in 1..Len(Upper) : Upper[i] = c
    THEN LowerCase[CHOOSE i \in 1..Len(Upper) : Upper[i] = c]
    ELSE c

\* str.lower()
lower(s) == [i \in 1..Len(s) |-> LowerChar(s[i])]

\* "sub in s" for strings
contains(s, sub) ==
    \E i \in 0..(Len(s) - Len(sub)) :
        \A j \in 1..Len(sub) : s[i + j] = sub[j]

\* A JSON value of a request field. t: "absent" (no such key), "null", "str"
\* (s holds the characters), "num" (n holds the number), "text" (a str that
\* float() cannot parse, for quantity).
Absent == [t |-> "absent", s |-> <<>>, n |-> 0]
Null == [t |-> "null", s |-> <<>>, n |-> 0]
Str(chars) == [t |-> "str", s |-> chars, n |-> 0]
Num(k) == [t |-> "num", s |-> <<>>, n |-> k]
Text == [t |-> "text", s |-> <<"a", "b", "c">>, n |-> 0]

\* Python truthiness of data.get(key): a missing key, null, "" and 0 are falsy
Truthy(j) ==
    \/ j.t = "str" /\ Len(j.s) > 0
    \/ j.t = "text"
    \/ j.t = "num" /\ j.n # 0

s_signal_buy == <<"s", "i", "g", "n", "a", "l", "_", "b", "u", "y">>
s_signal_exit == <<"s", "i", "g", "n", "a", "l", "_", "e", "x", "i", "t">>
s_buy == <<"b", "u", "y">>
s_exit == <<"e", "x", "i", "t">>
s_sell == <<"s", "e", "l", "l">>
s_BUY == <<"B", "U", "Y">>
s_Sell_Buy == <<"S", "e", "l", "l", "_", "B", "u", "y">>
s_Long_Exit == <<"L", "o", "n", "g", "_", "E", "x", "i", "t">>
s_SELL == <<"S", "E", "L", "L">>
s_hold == <<"h", "o", "l", "d">>
s_KRW_BTC == <<"K", "R", "W", "-", "B", "T", "C">>
s_005930 == <<"0", "0", "5", "9", "3", "0">>
s_BTCKRW == <<"B", "T", "C", "K", "R", "W">>

\* ------------------------------------------------------------------ inputs

\* alert_name values of the modelled alerts
AlertNames ==
    {Absent, Null, Str(<<>>), Str(s_signal_buy), Str(s_BUY), Str(s_Sell_Buy),
     Str(s_signal_exit), Str(s_Long_Exit), Str(s_SELL), Str(s_hold)}

\* symbol values of the modelled alerts
AlertSymbols ==
    {Absent, Str(<<>>), Num(5930), Str(s_KRW_BTC), Str(s_005930), Str(s_BTCKRW)}

AlertSides == {Absent, Str(s_buy), Str(s_SELL), Str(s_hold), Num(1)}

AlertQuantities == {Absent, Null, Text, Num(0 - 1), Num(0), Num(2)}

\* body: "object" (a JSON object with the fields below), "array" (valid JSON
\* that is no object), "invalid" (no JSON at all)
ObjectAlerts ==
    [body : {"object"}, passphrase : {"ok", "bad"}, alert_name : AlertNames,
     symbol : AlertSymbols, side : AlertSides, quantity : AlertQuantities]

NoAlert ==
    [body |-> "none", passphrase |-> "bad", alert_name |-> Absent,
     symbol |-> Absent, side |-> Absent, quantity |-> Absent]

\* The modelled alerts: side and quantity vary on alerts that name no signal;
\* a signal alert carries none or both.
Alerts ==
    {a \in ObjectAlerts :
        \/ a.alert_name \in {Absent, Null, Str(<<>>), Str(s_hold)}
        \/ a.side = Absent /\ a.quantity = Absent
        \/ a.side = Str(s_buy) /\ a.quantity = Num(2)}
    \cup {[NoAlert EXCEPT !.body = "array"], [NoAlert EXCEPT !.body = "invalid"]}

\* ------------------------------------------------------------------- state

Workers == {1, 2}

VARIABLES
    \* process-wide configuration, fixed at start-up (main.py lines 42-94):
    \* upbit (the client exists), kis (all four KIS settings are set),
    \* allow_duplicate_buy (ALLOW_DUPLICATE_BUY), notion (the client exists)
    config,
    \* quantity of the alerted instrument held at its exchange
    holding,
    \* per worker: where its webhook invocation stands
    pc,
    \* per worker: the request body it received
    alert,
    \* per worker: the handler's local variables
    loc,
    \* per worker: the HTTP response
    resp,
    \* per worker: the calls made to the collaborators, in order
    calls,
    \* direct call of the two classifiers: argument and results
    sym_in, sym_out,
    \* direct call of calculate_dynamic_kelly_fraction: arguments and result
    kelly_in, kelly_out,
    \* direct call of is_kis_market_open: the Seoul clock reading, whether the
    \* time-zone lookup raises, and the result
    market_in, market_out,
    \* the globals kis_access_token and kis_token_issued_at (main.py lines
    \* 84-85), the token file kis_token_prod.json, the wall clock in units of
    \* ten minutes, and what the call of get_kis_access_token at this time
    \* returned and how it got it
    kis_access_token, kis_token_issued_at, token_file, clock, token_out

hvars == <<config, holding, pc, alert, loc, resp, calls>>
mvars == <<market_in, market_out>>
tvars == <<kis_access_token, kis_token_issued_at, token_file, clock, token_out>>
fvars == <<sym_in, sym_out, kelly_in, kelly_out, mvars, tvars>>
vars == <<config, holding, pc, alert, loc, resp, calls, sym_in, sym_out, kelly_in, kelly_out,
          market_in, market_out,
          kis_access_token, kis_token_issued_at, token_file, clock, token_out>>

NoResult ==
    [amount |-> 0, method |-> "none", kelly_fraction |-> 0,
     volatility |-> [nan |-> FALSE, v |-> 0], tier_kelly |-> 0,
     volatility_kelly |-> 0, default_used |-> FALSE, fetches |-> 0]

NoLoc ==
    [path |-> "none", symbol_type |-> "none", page_id |-> FALSE,
     position_read |-> FALSE, current_position |-> 0,
     balance_read |-> FALSE, available_krw |-> 0,
     market_checked |-> FALSE, market_open |-> FALSE,
     sized |-> FALSE, kelly |-> NoResult,
     current_price |-> 0, quantity |-> 0,
     trade_details |-> "unset"]

NoResp == [http |-> 0, status |-> "none", reason |-> "none"]

NoFetch == [kind |-> "empty", closes |-> <<>>]

NoKellyIn ==
    [symbol |-> <<>>, available_krw |-> 0, volatility_symbol |-> <<>>,
     fetch |-> NoFetch]

\* No webhook worker runs (the direct calls below need none)
HandlerOff ==
    /\ config = [upbit |-> FALSE, kis |-> FALSE, allow_duplicate_buy |-> FALSE,
                 notion |-> FALSE]
    /\ holding = 0
    /\ pc = [w \in Workers |-> "off"]
    /\ alert = [w \in Workers |-> NoAlert]
    /\ loc = [w \in Workers |-> NoLoc]
    /\ resp = [w \in Workers |-> NoResp]
    /\ calls = [w \in Workers |-> <<>>]

\* None, where the source holds a token or a time
None == 0 - 1

NoClock == [weekday |-> 0, tod |-> 0]

NoTokenOut == [token |-> None, how |-> "none", restarts |-> 0]

\* No direct call of is_kis_market_open is made
MarketOff ==
    /\ market_in = [now |-> NoClock, raises |-> FALSE]
    /\ market_out = [called |-> FALSE, open |-> FALSE]

\* No direct call of get_kis_access_token is made: lines 84-85, no token file
TokenOff ==
    /\ kis_access_token = None
    /\ kis_token_issued_at = None
    /\ token_file = [access_token |-> None, expires_at |-> None]
    /\ clock = 0
    /\ token_out = NoTokenOut

\* No direct call is made (the webhook runs)
HarnessOff ==
    /\ sym_in = <<>>
    /\ sym_out = [called |-> FALSE, main |-> "none", kelly |-> "none"]
    /\ kelly_in = NoKellyIn
    /\ kelly_out = [called |-> FALSE, r |-> NoResult]
    /\ MarketOff
    /\ TokenOff

\* ------------------------------------------------------------- the webhook

\* is_kis_market_open closing the session just before 15:30:00
is_kis_market_open_before_close(now, raises) ==
    IF raises THEN TRUE
    ELSE IF now.weekday >= 5 THEN FALSE
    ELSE (9 * 3600 <= now.tod /\ now.tod < 15 * 3600 + 30 * 60)

\* main.py is_kis_market_open: now is Seoul time (weekday 0 = Monday, tod the
\* second of the day); raises = the time-zone lookup raised
is_kis_market_open(now, raises) ==
    IF raises THEN TRUE
    ELSE IF now.weekday >= 5 THEN FALSE
    ELSE (MarketOpenHour * 3600 <= now.tod
          /\ now.tod <= MarketCloseHour * 3600 + MarketCloseMinute * 60)

\* a call to a collaborator: status is the journal status asked for, side and
\* amount describe an order (a buy on Upbit is for an amount in 1/100 KRW, every
\* other order for a quantity), out is what the collaborator answered
Call(name, out) == [call |-> name, status |-> "", side |-> "", amount |-> 0, out |-> out]
JournalCall(name, status, out) == [Call(name, out) EXCEPT !.status = status]
OrderCall(name, side, amount, out) ==
    [Call(name, out) EXCEPT !.side = side, !.amount = amount]

OrderCallNames == {"upbit.buy_market_order", "upbit.sell_market_order", "kis.order_cash"}

\* main.py _create_notion_trade_page: None without a client, else the page id,
\* or None when the journal call fails
CreatePageCalls(status, ok) ==
    IF config.notion
    THEN <<JournalCall("notion.pages.create", status, IF ok THEN "ok" ELSE "raise")>>
    ELSE <<>>

\* main.py _update_notion_trade_page: False without a client or a page id, else
\* one update call whose failure is swallowed
UpdatePageCalls(page_id, status, ok) ==
    IF config.notion /\ page_id
    THEN <<JournalCall("notion.pages.update", status, IF ok THEN "ok" ELSE "raise")>>
    ELSE <<>>

\* main.py line 951
IsBuyAlert(alert_name) ==
    alert_name = s_signal_buy \/ (Len(alert_name) > 0 /\ contains(alert_name, s_buy))

\* main.py line 1147
IsExitAlert(alert_name) ==
    \/ alert_name = s_signal_exit
    \/ (Len(alert_name) > 0
        /\ (contains(alert_name, s_exit) \/ contains(alert_name, s_sell)))

\* the path an alert name selects (main.py lines 951, 1147, 1293)
alert_path(alert_name) ==
    IF IsBuyAlert(alert_name) THEN "buy"
    ELSE IF IsExitAlert(alert_name) THEN "exit"
    ELSE "manual"

\* an event loop that runs the handlers of two requests at once
loop_shared(w) == TRUE

\* lines 890-911: the handler is a coroutine whose only await is the read of
\* the body; from there to the response it holds the one event loop of the
\* process, and every exchange and journal call in it blocks
loop_free(w) == \A v \in Workers \ {w} : pc[v] \in {"off", "idle", "responded"}

\* the three except clauses of tradingview_webhook (lines 1355-1382): the
\* journal record, if one was created, is set to Error and the error becomes
\* the HTTP status
\* a handler that answers 500 when a journal call of its last step failed
Responded_journal_checked(w, http, status, reason, new_calls, new_loc) ==
    LET failed == \E i \in DOMAIN new_calls :
                      /\ new_calls[i].call \in {"notion.pages.create", "notion.pages.update"}
                      /\ new_calls[i].out = "raise"
    IN /\ pc' = [pc EXCEPT ![w] = "responded"]
       /\ resp' = [resp EXCEPT ![w] =
                      IF failed
                      THEN [http |-> 500, status |-> "error", reason |-> "internal"]
                      ELSE [http |-> http, status |-> status, reason |-> reason]]
       /\ calls' = [calls EXCEPT ![w] = calls[w] \o new_calls]
       /\ loc' = [loc EXCEPT ![w] = new_loc]

Responded(w, http, status, reason, new_calls, new_loc) ==
    /\ pc' = [pc EXCEPT ![w] = "responded"]
    /\ resp' = [resp EXCEPT ![w] = [http |-> http, status |-> status, reason |-> reason]]
    /\ calls' = [calls EXCEPT ![w] = calls[w] \o new_calls]
    /\ loc' = [loc EXCEPT ![w] = new_loc]

\* the except clauses leaving the journal record alone
Raised_unjournaled(w, http, reason, new_calls, new_loc, ok) ==
    Responded(w, http, "error", reason, new_calls, new_loc)

Raised(w, http, reason, new_calls, new_loc, ok) ==
    Responded(w, http, "error", reason,
              new_calls \o UpdatePageCalls(new_loc.page_id, "Error", ok), new_loc)

Continue(w, next, new_calls, new_loc) ==
    /\ pc' = [pc EXCEPT ![w] = next]
    /\ calls' = [calls EXCEPT ![w] = calls[w] \o new_calls]
    /\ loc' = [loc EXCEPT ![w] = new_loc]
    /\ UNCHANGED resp

Configs ==
    [upbit : BOOLEAN, kis : BOOLEAN, allow_duplicate_buy : BOOLEAN, notion : BOOLEAN]

\* quantities of the alerted instrument the exchange may hold
Holdings == {0, 3}

InitHandler ==
    /\ config \in Configs
    /\ holding \in Holdings
    /\ alert = [w \in Workers |-> NoAlert]
    /\ loc = [w \in Workers |-> NoLoc]
    /\ resp = [w \in Workers |-> NoResp]
    /\ calls = [w \in Workers |-> <<>>]

\* one webhook invocation at a time
Init ==
    /\ InitHandler
    /\ pc = [w \in Workers |-> IF w = 1 THEN "idle" ELSE "off"]
    /\ HarnessOff

\* tradingview_webhook, lines 910-969, 1150-1165 and 1293-1304: the body is
\* parsed, the passphrase checked, the alert kind and the symbol kind resolved;
\* a buy or exit alert creates its journal record (status Placed), a manual
\* one has its side and quantity read
Accept(w, bodies) ==
    /\ pc[w] = "idle"
    /\ loop_free(w)
    /\ \E a \in bodies, created \in BOOLEAN, ok \in BOOLEAN :
        LET name == IF a.alert_name.t = "str" THEN lower(a.alert_name.s) ELSE <<>>
            symbol_type == detect_symbol_type(a.symbol.s)
            path == alert_path(name)
            l0 == [NoLoc EXCEPT !.path = path, !.symbol_type = symbol_type]
            page == config.notion /\ created
            l1 == [l0 EXCEPT !.page_id = page]
            next == IF path = "buy"
                    THEN (IF symbol_type = "crypto" THEN "buy_crypto" ELSE "buy_stock")
                    ELSE IF path = "exit"
                    THEN (IF symbol_type = "crypto" THEN "exit_crypto" ELSE "exit_stock")
                    ELSE (IF symbol_type = "crypto" THEN "manual_crypto" ELSE "manual_stock")
        IN /\ alert' = [alert EXCEPT ![w] = a]
           /\ IF a.body = "invalid"
              THEN Raised(w, 400, "invalid_data", <<>>, NoLoc, ok)
              ELSE IF a.body # "object"
              THEN Raised(w, 500, "internal", <<>>, NoLoc, ok)
              ELSE IF a.passphrase # "ok"
              THEN Raised(w, 401, "invalid_passphrase", <<>>, NoLoc, ok)
              ELSE IF a.alert_name.t \notin {"absent", "str"}
              THEN Raised(w, 500, "internal", <<>>, NoLoc, ok)
              ELSE IF ~Truthy(a.symbol)
              THEN Raised(w, 400, "missing_symbol", <<>>, NoLoc, ok)
              ELSE IF a.symbol.t # "str"
              THEN Raised(w, 500, "internal", <<>>, NoLoc, ok)
              ELSE IF symbol_type = "unknown"
              THEN Raised(w, 400, "unsupported_symbol", <<>>, l0, ok)
              ELSE IF path \in {"buy", "exit"}
              THEN Continue(w, next, CreatePageCalls("Placed", created), l1)
              ELSE IF a.side.t = "absent" \/ a.quantity.t = "absent"
              THEN Raised(w, 400, "missing_field", <<>>, l0, ok)
              ELSE IF a.quantity.t = "null"
              THEN Raised(w, 500, "internal", <<>>, l0, ok)
              ELSE IF a.quantity.t = "text"
              THEN Raised(w, 400, "invalid_data", <<>>, l0, ok)
              ELSE IF a.quantity.n <= 0
              THEN Raised(w, 400, "quantity_not_positive", <<>>, l0, ok)
              ELSE Continue(w, next, <<>>, [l0 EXCEPT !.quantity = a.quantity.n])
    /\ UNCHANGED <<config, holding, fvars>>

\* a request with any of the modelled bodies
Receive(w) == Accept(w, Alerts)

\* balances the exchange account may report, in KRW
HandlerCapitals == {0, 4999, 5000, 9999, 10000, 20000, 1000000}

\* answers of the price history the sizing may get
HandlerFetchOutcomes ==
    {[kind |-> "error", closes |-> <<>>],
     [kind |-> "nocolumn", closes |-> <<100000, 101000>>],
     [kind |-> "nonnumeric", closes |-> <<100000, 101000>>],
     [kind |-> "rows", closes |-> <<100000>>],
     [kind |-> "rows", closes |-> <<100000, 101000, 101000, 99990>>],
     [kind |-> "rows", closes |-> <<100000, 101500, 101500, 99978>>],
     [kind |-> "rows", closes |-> <<100000, 102000, 102000, 99958>>],
     [kind |-> "rows", closes |-> <<100000, 103000, 103000, 99908>>]}

\* answers of an Upbit order: the order, None (pyupbit reports a rejected
\* order so), or an exception
UpbitOrderOutcomes == {"result", "none", "raise"}

\* answers of a KIS query: no access token (no query is sent), a failed query,
\* a good answer
KisOutcomes == {"no_token", "fail", "ok"}

KisCalls(name, out) ==
    IF out = "no_token"
    THEN <<Call("kis.token", "fail")>>
    ELSE <<Call("kis.token", "ok"), Call(name, out)>>

\* the history fetch of a sizing, if it makes one
FetchCalls(symbol_type, kelly, fetch) ==
    IF kelly.fetches = 0 THEN <<>>
    ELSE <<Call(IF symbol_type = "crypto" THEN "pyupbit.get_ohlcv" ELSE "yfinance.history",
                fetch.kind)>>

\* the duplicate gate with the flag read the wrong way round
existing_position_inverted(current_position) ==
    current_position > 0 /\ config.allow_duplicate_buy

\* lines 977 and 1075: a holding stops a buy unless duplicates are allowed
existing_position(current_position) ==
    current_position > 0 /\ ~config.allow_duplicate_buy

\* what the handler holds in trade_details after place_upbit_order: the
\* order, None, or the exception the client raised
upbit_result(out) ==
    IF out = "result" THEN "dict" ELSE IF out = "none" THEN "None" ELSE "Exception"

\* what the handler holds in trade_details after place_kis_order: the order
\* result, or None on every failure
kis_result(out) == IF out = "ok" THEN "dict" ELSE "None"

\* what the exchange reports as the holding after a buy order it accepted: the
\* fill, or still the old holding
AfterBuy(accepted) ==
    IF accepted THEN {holding} \cup {h \in Holdings : h > 0} ELSE {holding}

\* the same after a sell order of the whole holding
AfterSell(accepted) == IF accepted THEN {holding, 0} ELSE {holding}

\* lines 971-993: the crypto buy reads the position and skips on a holding
BuyCryptoPosition(w) ==
    /\ pc[w] = "buy_crypto"
    /\ loop_free(w)
    /\ \E read \in BOOLEAN, ok \in BOOLEAN :
        LET current_position == IF read THEN holding ELSE 0
            l == [loc[w] EXCEPT !.position_read = TRUE,
                                !.current_position = current_position]
            c == <<Call("upbit.get_balances", IF read THEN "ok" ELSE "raise")>>
        IN IF ~config.upbit
           THEN Raised(w, 500, "no_client", <<>>, loc[w], ok)
           ELSE IF existing_position(current_position)
           THEN Responded(w, 200, "skipped", "existing_position",
                          c \o UpdatePageCalls(l.page_id, "Skipped", ok), l)
           ELSE Continue(w, "buy_crypto_balance", c, l)
    /\ UNCHANGED <<config, holding, alert, fvars>>

\* the crypto buy path without its minimum-balance gate
BuyCryptoBalance_ungated(w) ==
    /\ pc[w] = "buy_crypto_balance"
    /\ loop_free(w)
    /\ \E read \in BOOLEAN, krw \in HandlerCapitals :
        LET available_krw == IF read THEN krw ELSE 0
            l == [loc[w] EXCEPT !.balance_read = TRUE, !.available_krw = available_krw]
            c == <<Call("upbit.get_balances", IF read THEN "ok" ELSE "raise")>>
        IN Continue(w, "buy_crypto_size", c, l)
    /\ UNCHANGED <<config, holding, alert, fvars>>

\* lines 995-1001: the KRW balance must reach the minimum order
BuyCryptoBalance(w) ==
    /\ pc[w] = "buy_crypto_balance"
    /\ loop_free(w)
    /\ \E read \in BOOLEAN, krw \in HandlerCapitals, ok \in BOOLEAN, ok2 \in BOOLEAN :
        LET available_krw == IF read THEN krw ELSE 0
            l == [loc[w] EXCEPT !.balance_read = TRUE, !.available_krw = available_krw]
            c == <<Call("upbit.get_balances", IF read THEN "ok" ELSE "raise")>>
        IN IF available_krw < MinCryptoKrw
           THEN Raised(w, 400, "insufficient_balance",
                       c \o UpdatePageCalls(l.page_id, "Error", ok), l, ok2)
           ELSE Continue(w, "buy_crypto_size", c, l)
    /\ UNCHANGED <<config, holding, alert, fvars>>

\* line 1004: the order amount is sized on the alerted symbol
BuyCryptoSize(w) ==
    /\ pc[w] = "buy_crypto_size"
    /\ loop_free(w)
    /\ \E fetch \in HandlerFetchOutcomes :
        LET kelly == calculate_dynamic_kelly_fraction(alert[w].symbol.s,
                                                      loc[w].available_krw, <<>>, fetch)
            l == [loc[w] EXCEPT !.sized = TRUE, !.kelly = kelly]
        IN Continue(w, "buy_crypto_order", FetchCalls("crypto", kelly, fetch), l)
    /\ UNCHANGED <<config, holding, alert, fvars>>

\* lines 1008-1049: the last price is read for the journal, the market buy is
\* placed for the sized amount; only an exception of the order is an error
BuyCryptoOrder(w) ==
    /\ pc[w] = "buy_crypto_order"
    /\ loop_free(w)
    /\ \E out \in UpbitOrderOutcomes, ok \in BOOLEAN :
        LET c == <<Call("pyupbit.get_current_price", "ok"),
                   OrderCall("upbit.buy_market_order", "buy", loc[w].kelly.amount, out)>>
            l == [loc[w] EXCEPT !.trade_details = upbit_result(out)]
        IN /\ holding' \in AfterBuy(out = "result")
           /\ IF out = "raise"
              THEN Raised(w, 500, "internal", c, l, ok)
              ELSE Responded(w, 200, "success", "none",
                             c \o UpdatePageCalls(l.page_id, "Filled", ok), l)
    /\ UNCHANGED <<config, alert, fvars>>

\* Seoul clock readings of the market check
Clocks ==
    [weekday : {0, 4, 5, 6},
     tod : {MarketOpenHour * 3600 - 1, MarketOpenHour * 3600,
            MarketCloseHour * 3600 + MarketCloseMinute * 60,
            MarketCloseHour * 3600 + MarketCloseMinute * 60 + 1}]

\* the equity buy with the market check made and its answer ignored
BuyStockMarket_ungated(w) ==
    /\ pc[w] = "buy_stock"
    /\ loop_free(w)
    /\ \E now \in Clocks, tz_raises \in BOOLEAN, ok \in BOOLEAN :
        LET open == is_kis_market_open(now, tz_raises)
            l == [loc[w] EXCEPT !.market_checked = TRUE, !.market_open = open]
        IN IF ~config.kis
           THEN Raised(w, 500, "no_client", <<>>, loc[w], ok)
           ELSE Continue(w, "buy_stock_position", <<>>, l)
    /\ UNCHANGED <<config, holding, alert, fvars>>

\* lines 1053-1071: the equity buy needs the KIS settings and an open market
BuyStockMarket(w) ==
    /\ pc[w] = "buy_stock"
    /\ loop_free(w)
    /\ \E now \in Clocks, tz_raises \in BOOLEAN, ok \in BOOLEAN :
        LET open == is_kis_market_open(now, tz_raises)
            l == [loc[w] EXCEPT !.market_checked = TRUE, !.market_open = open]
        IN IF ~config.kis
           THEN Raised(w, 500, "no_client", <<>>, loc[w], ok)
           ELSE IF ~open
           THEN Responded(w, 200, "skipped", "market_closed",
                          UpdatePageCalls(l.page_id, "Skipped", ok), l)
           ELSE Continue(w, "buy_stock_position", <<>>, l)
    /\ UNCHANGED <<config, holding, alert, fvars>>

\* lines 1073-1088: the position is read and a holding skips the buy
BuyStockPosition(w) ==
    /\ pc[w] = "buy_stock_position"
    /\ loop_free(w)
    /\ \E out \in KisOutcomes, ok \in BOOLEAN :
        LET current_position == IF out = "ok" THEN holding ELSE 0
            l == [loc[w] EXCEPT !.position_read = TRUE,
                                !.current_position = current_position]
            c == KisCalls("kis.inquire_balance", out)
        IN IF existing_position(current_position)
           THEN Responded(w, 200, "skipped", "existing_position",
                          c \o UpdatePageCalls(l.page_id, "Skipped", ok), l)
           ELSE Continue(w, "buy_stock_cash", c, l)
    /\ UNCHANGED <<config, holding, alert, fvars>>

\* lines 1090-1097: the available cash must reach the equity minimum
BuyStockCash(w) ==
    /\ pc[w] = "buy_stock_cash"
    /\ loop_free(w)
    /\ \E out \in KisOutcomes, krw \in HandlerCapitals, ok \in BOOLEAN, ok2 \in BOOLEAN :
        LET available_krw == IF out = "ok" THEN krw ELSE 0
            l == [loc[w] EXCEPT !.balance_read = TRUE, !.available_krw = available_krw]
            c == KisCalls("kis.inquire_balance", out)
        IN IF available_krw < MinStockKrw
           THEN Raised(w, 400, "insufficient_balance",
                       c \o UpdatePageCalls(l.page_id, "Error", ok), l, ok2)
           ELSE Continue(w, "buy_stock_size", c, l)
    /\ UNCHANGED <<config, holding, alert, fvars>>

\* line 1101: the equity order is sized on the alerted stock code
BuyStockSize(w) ==
    /\ pc[w] = "buy_stock_size"
    /\ loop_free(w)
    /\ \E fetch \in HandlerFetchOutcomes :
        LET kelly == calculate_dynamic_kelly_fraction(alert[w].symbol.s,
                                                      loc[w].available_krw, <<>>, fetch)
            l == [loc[w] EXCEPT !.sized = TRUE, !.kelly = kelly]
        IN Continue(w, "buy_stock_price", FetchCalls("stock", kelly, fetch), l)
    /\ UNCHANGED <<config, holding, alert, fvars>>

\* prices of one share the broker may quote, in KRW
StockPrices == {0, 3000, 70000}

\* the share count rounded up instead of down
max_quantity_ceil(kelly_amount, current_price) ==
    (kelly_amount + current_price * Jeon - 1) \div (current_price * Jeon)

\* line 1102: int(kelly_amount // current_price), the amount in 1/100 KRW
max_quantity_of(kelly_amount, current_price) ==
    kelly_amount \div (current_price * Jeon)

\* lines 1108-1122: the quote turns the amount into whole shares
BuyStockPrice(w) ==
    /\ pc[w] = "buy_stock_price"
    /\ loop_free(w)
    /\ \E out \in KisOutcomes, price \in StockPrices, ok \in BOOLEAN :
        LET c == KisCalls("kis.inquire_price", out)
            max_quantity == IF price > 0
                            THEN max_quantity_of(loc[w].kelly.amount, price) ELSE 0
            l == [loc[w] EXCEPT !.current_price = price, !.quantity = max_quantity]
        IN IF out # "ok"
           THEN Raised(w, 500, "no_price", c, loc[w], ok)
           ELSE IF price = 0
           THEN Raised(w, 500, "invalid_price", c, l, ok)
           ELSE IF max_quantity = 0
           THEN Raised(w, 400, "insufficient_amount", c, l, ok)
           ELSE Continue(w, "buy_stock_order", c, l)
    /\ UNCHANGED <<config, holding, alert, fvars>>

\* answers of place_kis_order: no token, no quote, no hash key, an order the
\* broker refuses or that fails, an accepted order
KisOrderOutcomes == {"no_token", "no_price", "no_hashkey", "rejected", "ok"}

\* place_kis_order sending every order as a buy
place_kis_order_as_buy(side, quantity, out) ==
    IF out = "no_token" THEN <<Call("kis.token", "fail")>>
    ELSE IF out = "no_price"
    THEN <<Call("kis.token", "ok"), Call("kis.inquire_price", "fail")>>
    ELSE IF out = "no_hashkey"
    THEN <<Call("kis.token", "ok"), Call("kis.inquire_price", "ok"),
           Call("kis.hashkey", "fail")>>
    ELSE <<Call("kis.token", "ok"), Call("kis.inquire_price", "ok"),
           Call("kis.hashkey", "ok"), OrderCall("kis.order_cash", "buy", quantity, out)>>

\* an equity adapter that sends a refused order once more
place_kis_order_retried(side, quantity, out) ==
    LET sent == IF lower(side) = s_sell THEN "sell" ELSE "buy"
        order == OrderCall("kis.order_cash", sent, quantity, out)
    IN IF out = "no_token" THEN <<Call("kis.token", "fail")>>
       ELSE IF out = "no_price"
       THEN <<Call("kis.token", "ok"), Call("kis.inquire_price", "fail")>>
       ELSE IF out = "no_hashkey"
       THEN <<Call("kis.token", "ok"), Call("kis.inquire_price", "ok"),
              Call("kis.hashkey", "fail")>>
       ELSE <<Call("kis.token", "ok"), Call("kis.inquire_price", "ok"),
              Call("kis.hashkey", "ok"), order>>
            \o (IF out = "ok" THEN <<>> ELSE <<order>>)

\* place_kis_order (lines 755-818): the queries made up to the outcome; any
\* side but "sell" is sent as a buy
place_kis_order(side, quantity, out) ==
    LET sent == IF lower(side) = s_sell THEN "sell" ELSE "buy"
        token == <<Call("kis.token", "ok")>>
    IN IF out = "no_token" THEN <<Call("kis.token", "fail")>>
       ELSE IF out = "no_price" THEN token \o <<Call("kis.inquire_price", "fail")>>
       ELSE IF out = "no_hashkey"
       THEN token \o <<Call("kis.inquire_price", "ok"), Call("kis.hashkey", "fail")>>
       ELSE token \o <<Call("kis.inquire_price", "ok"), Call("kis.hashkey", "ok"),
                       OrderCall("kis.order_cash", sent, quantity, out)>>

\* lines 1124-1145: the equity market buy; no order result is an error
BuyStockOrder(w) ==
    /\ pc[w] = "buy_stock_order"
    /\ loop_free(w)
    /\ \E out \in KisOrderOutcomes, ok \in BOOLEAN :
        LET c == place_kis_order(s_buy, loc[w].quantity, out)
            l == [loc[w] EXCEPT !.trade_details = kis_result(out)]
        IN /\ holding' \in AfterBuy(out = "ok")
           /\ IF out # "ok"
              THEN Raised(w, 500, "order_failed", c, l, ok)
              ELSE Responded(w, 200, "success", "none",
                             c \o UpdatePageCalls(l.page_id, "Filled", ok), l)
    /\ UNCHANGED <<config, alert, fvars>>

\* lines 1167-1206: the crypto exit sells the whole position; with no position
\* it answers at once and leaves the journal record as created
ExitCrypto(w) ==
    /\ pc[w] = "exit_crypto"
    /\ loop_free(w)
    /\ \E read \in BOOLEAN, out \in UpbitOrderOutcomes, ok \in BOOLEAN :
        LET current_position == IF read THEN holding ELSE 0
            l == [loc[w] EXCEPT !.position_read = TRUE,
                                !.current_position = current_position]
            c == <<Call("upbit.get_balances", IF read THEN "ok" ELSE "raise")>>
            o == <<Call("pyupbit.get_current_price", "ok"),
                   OrderCall("upbit.sell_market_order", "sell", current_position, out)>>
            ld == [l EXCEPT !.trade_details = upbit_result(out)]
        IN /\ holding' \in AfterSell(config.upbit /\ current_position > 0 /\ out = "result")
           /\ IF ~config.upbit
              THEN Raised(w, 500, "no_client", <<>>, loc[w], ok)
              ELSE IF current_position <= 0
              THEN Responded(w, 200, "skipped", "no_position", c, l)
              ELSE IF out = "raise"
              THEN Raised(w, 500, "internal", c \o o, ld, ok)
              ELSE Responded(w, 200, "success", "none",
                             c \o o \o UpdatePageCalls(l.page_id, "Filled", ok), ld)
    /\ UNCHANGED <<config, alert, fvars>>

\* lines 1208-1226: the equity exit needs the KIS settings and an open market
ExitStockMarket(w) ==
    /\ pc[w] = "exit_stock"
    /\ loop_free(w)
    /\ \E now \in Clocks, tz_raises \in BOOLEAN, ok \in BOOLEAN :
        LET open == is_kis_market_open(now, tz_raises)
            l == [loc[w] EXCEPT !.market_checked = TRUE, !.market_open = open]
        IN IF ~config.kis
           THEN Raised(w, 500, "no_client", <<>>, loc[w], ok)
           ELSE IF ~open
           THEN Responded(w, 200, "skipped", "market_closed",
                          UpdatePageCalls(l.page_id, "Skipped", ok), l)
           ELSE Continue(w, "exit_stock_position", <<>>, l)
    /\ UNCHANGED <<config, holding, alert, fvars>>

\* lines 1228-1276: the equity exit sells the whole position
ExitStockOrder(w) ==
    /\ pc[w] = "exit_stock_position"
    /\ loop_free(w)
    /\ \E read \in KisOutcomes, out \in KisOrderOutcomes, ok \in BOOLEAN :
        LET current_position == IF read = "ok" THEN holding ELSE 0
            l == [loc[w] EXCEPT !.position_read = TRUE,
                                !.current_position = current_position,
                                !.quantity = current_position]
            c == KisCalls("kis.inquire_balance", read)
            o == place_kis_order(s_sell, current_position, out)
            ld == [l EXCEPT !.trade_details = kis_result(out)]
        IN /\ holding' \in AfterSell(current_position > 0 /\ out = "ok")
           /\ IF current_position <= 0
              THEN Responded(w, 200, "skipped", "no_position",
                             c \o UpdatePageCalls(l.page_id, "Skipped", ok), l)
              ELSE IF out # "ok"
              THEN Raised(w, 500, "order_failed", c \o o, ld, ok)
              ELSE Responded(w, 200, "success", "none",
                             c \o o \o UpdatePageCalls(l.page_id, "Filled", ok), ld)
    /\ UNCHANGED <<config, alert, fvars>>

\* lines 1309-1322 and place_upbit_order: the manual crypto order; a side that
\* is neither buy nor sell is a ValueError, a side that is no string an
\* AttributeError, and no journal record exists on this path
ManualCrypto(w) ==
    /\ pc[w] = "manual_crypto"
    /\ loop_free(w)
    /\ \E out \in UpbitOrderOutcomes, ok \in BOOLEAN :
        LET side == alert[w].side
            sent == lower(side.s)
            name == IF sent = s_buy THEN "upbit.buy_market_order"
                    ELSE "upbit.sell_market_order"
            amount == IF sent = s_buy THEN loc[w].quantity * Jeon ELSE loc[w].quantity
            c == <<OrderCall(name, IF sent = s_buy THEN "buy" ELSE "sell", amount, out)>>
            l == [loc[w] EXCEPT !.trade_details = upbit_result(out)]
        IN IF ~config.upbit
           THEN Raised(w, 500, "no_client", <<>>, loc[w], ok)
           ELSE IF side.t # "str"
           THEN Raised(w, 500, "internal", <<>>,
                       [loc[w] EXCEPT !.trade_details = "AttributeError"], ok)
           ELSE IF sent \notin {s_buy, s_sell}
           THEN Raised(w, 400, "invalid_data", <<>>,
                       [loc[w] EXCEPT !.trade_details = "ValueError"], ok)
           ELSE IF out = "raise"
           THEN Raised(w, 500, "internal", c, l, ok)
           ELSE Responded(w, 200, "success", "none", c, l)
    /\ UNCHANGED <<config, holding, alert, fvars>>

\* lines 1324-1353: the manual equity order (the modelled quantities are whole,
\* so int(quantity) is the quantity); the side is first used after the token
ManualStock(w) ==
    /\ pc[w] = "manual_stock"
    /\ loop_free(w)
    /\ \E now \in Clocks, tz_raises \in BOOLEAN, out \in KisOrderOutcomes, ok \in BOOLEAN :
        LET open == is_kis_market_open(now, tz_raises)
            side == alert[w].side
            l == [loc[w] EXCEPT !.market_checked = TRUE, !.market_open = open]
            c == place_kis_order(side.s, l.quantity, out)
            ld == [l EXCEPT !.trade_details = kis_result(out)]
        IN IF ~config.kis
           THEN Raised(w, 500, "no_client", <<>>, loc[w], ok)
           ELSE IF ~open
           THEN Responded(w, 200, "skipped", "market_closed", <<>>, l)
           ELSE IF l.quantity <= 0
           THEN Raised(w, 400, "quantity_not_positive", <<>>, l, ok)
           ELSE IF out = "no_token"
           THEN Raised(w, 500, "order_failed", c, ld, ok)
           ELSE IF side.t # "str"
           THEN Raised(w, 500, "internal", <<Call("kis.token", "ok")>>,
                       [l EXCEPT !.trade_details = "AttributeError"], ok)
           ELSE IF out # "ok"
           THEN Raised(w, 500, "order_failed", c, ld, ok)
           ELSE Responded(w, 200, "success", "none", c, ld)
    /\ UNCHANGED <<config, holding, alert, fvars>>

\* one step of one webhook invocation
\* lines 971-1353: the handler after the alert is resolved
Proceed(w) ==
    \/ BuyCryptoPosition(w)
    \/ BuyCryptoBalance(w)
    \/ BuyCryptoSize(w)
    \/ BuyCryptoOrder(w)
    \/ BuyStockMarket(w)
    \/ BuyStockPosition(w)
    \/ BuyStockCash(w)
    \/ BuyStockSize(w)
    \/ BuyStockPrice(w)
    \/ BuyStockOrder(w)
    \/ ExitCrypto(w)
    \/ ExitStockMarket(w)
    \/ ExitStockOrder(w)
    \/ ManualCrypto(w)
    \/ ManualStock(w)

Handle(w) == Receive(w) \/ Proceed(w)

Next == \E w \in Workers : Handle(w)

Spec == Init /\ [][Next]_vars

\* ------------------------------------ one alert, with and without journal

JournalCallNames == {"notion.pages.create", "notion.pages.update"}

\* the calls to the exchanges and the price sources
NonJournal(s) == SelectSeq(s, LAMBDA c : c.call \notin JournalCallNames)

\* the same call: its name and, of an order, its side and amount
SameCall(c, d) == [c EXCEPT !.out = ""] = [d EXCEPT !.out = ""]

\* the run was told the price of the stock
PriceRead(w) ==
    \E i \in DOMAIN calls[w] :
        calls[w][i].call = "kis.inquire_price" /\ calls[w][i].out = "ok"

\* the second run got the alert of the first, and the exchanges and the price
\* sources gave it, call by call, the answers they gave the first run
SameAnswers ==
    /\ alert[2] \in {NoAlert, alert[1]}
    /\ (loc[2].position_read /\ loc[1].position_read) =>
        loc[2].current_position = loc[1].current_position
    /\ (loc[2].balance_read /\ loc[1].balance_read) =>
        loc[2].available_krw = loc[1].available_krw
    /\ (loc[2].market_checked /\ loc[1].market_checked) =>
        loc[2].market_open = loc[1].market_open
    /\ (loc[2].sized /\ loc[1].sized /\ loc[2].available_krw = loc[1].available_krw) =>
        loc[2].kelly = loc[1].kelly
    /\ (PriceRead(2) /\ PriceRead(1)) => loc[2].current_price = loc[1].current_price
    /\ LET c1 == NonJournal(calls[1])
           c2 == NonJournal(calls[2])
       IN \A i \in DOMAIN c1 \cap DOMAIN c2 :
            SameCall(c2[i], c1[i]) => c2[i].out = c1[i].out

\* the alerts of the two runs: a buy signal, an exit signal and a manual order
\* on each modelled symbol
JournalAlerts ==
    {a \in Alerts :
        /\ a.body = "object"
        /\ a.alert_name \in {Str(s_signal_buy), Str(s_signal_exit), Str(s_hold)}
        /\ a.side \in {Absent, Str(s_buy)}
        /\ a.quantity \in {Absent, Num(2)}}

\* the first run is made without a journal client (lines 88-94: notion is None)
InitJournal ==
    /\ InitHandler
    /\ ~config.notion
    /\ pc = [w \in Workers |-> IF w = 1 THEN "idle" ELSE "off"]
    /\ HarnessOff

\* the server is started again, now with the journal client, and the exchange
\* holds what the first run saw it hold
Restart ==
    /\ pc[1] = "responded" /\ pc[2] = "off"
    /\ config' = [config EXCEPT !.notion = TRUE]
    /\ holding' \in {h \in Holdings : loc[1].position_read => h = loc[1].current_position}
    /\ pc' = [pc EXCEPT ![2] = "idle"]
    /\ UNCHANGED <<alert, loc, resp, calls, fvars>>

\* the second run: the same alert, the same answers of the exchanges, any
\* outcome of the journal calls
Replay == (Accept(2, {alert[1]}) \/ Proceed(2)) /\ SameAnswers'

NextJournal == Accept(1, JournalAlerts) \/ Proceed(1) \/ Restart \/ Replay

SpecJournal == InitJournal /\ [][NextJournal]_vars

\* ------------------------------------------- two buy alerts, one instrument

\* the alert both requests carry
RaceAlert ==
    [body |-> "object", passphrase |-> "ok", alert_name |-> Str(s_signal_buy),
     symbol |-> Str(s_KRW_BTC), side |-> Absent, quantity |-> Absent]

\* two requests are accepted by the one server process of line 1483; nothing
\* is held, duplicate buys are disabled, the Upbit client exists, no journal
\* is configured
InitRace ==
    /\ InitHandler
    /\ config.upbit /\ ~config.allow_duplicate_buy /\ ~config.notion
    /\ holding = 0
    /\ pc = [w \in Workers |-> "idle"]
    /\ HarnessOff

\* lines 910-1041 for either request
HandleRace(w) ==
    \/ Accept(w, {RaceAlert})
    \/ BuyCryptoPosition(w)
    \/ BuyCryptoBalance(w)
    \/ BuyCryptoSize(w)
    \/ BuyCryptoOrder(w)

NextRace == \E w \in Workers : HandleRace(w)

\* the event loop resumes a handler whose body has arrived and runs it on
SpecRace == InitRace /\ [][NextRace]_vars /\ WF_vars(NextRace)

\* ------------------------------------------------- the classifiers, directly

SymbolAlphabet == {"-", "5", "B", "U+00B2"}

RECURSIVE StringsUpTo(_)
StringsUpTo(n) ==
    IF n = 0 THEN {<<>>}
    ELSE LET shorter == StringsUpTo(n - 1)
         IN shorter \cup {Append(s, c) : s \in {t \in shorter : Len(t) = n - 1},
                                          c \in SymbolAlphabet}

SymbolStrings == StringsUpTo(MaxSymLen) \cup {s_KRW_BTC, s_005930, s_BTCKRW}

InitClassify ==
    /\ HandlerOff
    /\ sym_in \in SymbolStrings
    /\ sym_out = [called |-> FALSE, main |-> "none", kelly |-> "none"]
    /\ kelly_in = NoKellyIn
    /\ kelly_out = [called |-> FALSE, r |-> NoResult]
    /\ MarketOff
    /\ TokenOff

\* detect_symbol_type(sym_in) and _detect_symbol_type(sym_in)
Classify ==
    /\ ~sym_out.called
    /\ sym_out' = [called |-> TRUE,
                   main |-> detect_symbol_type(sym_in),
                   kelly |-> _detect_symbol_type(sym_in)]
    /\ UNCHANGED <<hvars, sym_in, kelly_in, kelly_out, mvars, tvars>>

SpecClassify == InitClassify /\ [][Classify]_vars

\* -------------------------------------------------- the sizing call, directly

\* whole-KRW capital values: multiples of half the minimum order, the value
\* just below each, and the capital of the documented example
Capitals ==
    {k * (MinOrderKrw \div 2) : k \in 0..MaxCapitalSteps}
    \cup {k * (MinOrderKrw \div 2) - 1 : k \in 1..MaxCapitalSteps}
    \cup {1000 * 1000}

ClosePrices == {98000, 99990, 100000, 101000}

RECURSIVE HistoriesUpTo(_)
HistoriesUpTo(n) ==
    IF n = 0 THEN {<<>>}
    ELSE LET shorter == HistoriesUpTo(n - 1)
         IN shorter \cup {Append(h, p) : h \in {t \in shorter : Len(t) = n - 1},
                                          p \in ClosePrices}

\* histories whose volatility sits on and next to a tier boundary:
\* returns (a, 0, -a) have standard deviation a
BoundaryHistories ==
    {<<100000, 101000, 101000, 99990>>,    \* 0.01 exactly
     <<100000, 101000, 101000, 99989>>,    \* just above 0.01
     <<100000, 101500, 101500, 99978>>,    \* about 0.015
     <<100000, 102000, 102000, 99960>>,    \* 0.02 exactly
     <<100000, 102000, 102000, 99958>>,    \* just above 0.02
     <<100000, 103000, 103000, 99910>>,    \* 0.03 exactly
     <<100000, 103000, 103000, 99908>>}    \* just above 0.03

Histories == HistoriesUpTo(MaxHistLen) \cup BoundaryHistories

FetchOutcomes ==
    {[kind |-> "error", closes |-> <<>>], [kind |-> "empty", closes |-> <<>>]}
    \cup [kind : {"rows"}, closes : Histories \ {<<>>}]
    \cup [kind : {"nocolumn", "nonnumeric"}, closes : {<<100000, 101000, 100000>>}]

\* (symbol, volatility_symbol) pairs of the direct calls
s_sup2x6 == <<"U+00B2", "U+00B2", "U+00B2", "U+00B2", "U+00B2", "U+00B2">>
KellySymbolPairs ==
    {<<s_KRW_BTC, <<>>>>, <<s_005930, <<>>>>, <<s_BTCKRW, <<>>>>,
     <<s_sup2x6, <<>>>>, <<s_005930, s_KRW_BTC>>, <<s_KRW_BTC, s_BTCKRW>>}

InitKelly ==
    /\ HandlerOff
    /\ sym_in = <<>>
    /\ sym_out = [called |-> FALSE, main |-> "none", kelly |-> "none"]
    /\ \E sp \in KellySymbolPairs, c \in Capitals, f \in FetchOutcomes :
          kelly_in = [symbol |-> sp[1], available_krw |-> c,
                      volatility_symbol |-> sp[2], fetch |-> f]
    /\ kelly_out = [called |-> FALSE, r |-> NoResult]
    /\ MarketOff
    /\ TokenOff

\* calculate_dynamic_kelly_fraction(symbol, available_krw, volatility_symbol)
SizePosition ==
    /\ ~kelly_out.called
    /\ kelly_out' =
          [called |-> TRUE,
           r |-> calculate_dynamic_kelly_fraction(
                     kelly_in.symbol, kelly_in.available_krw,
                     kelly_in.volatility_symbol, kelly_in.fetch)]
    /\ UNCHANGED <<hvars, sym_in, sym_out, kelly_in, mvars, tvars>>

SpecKelly == InitKelly /\ [][SizePosition]_vars

\* ------------------------------------------------------- the market hours

\* Seoul clock readings: every weekday (0 = Monday), times of day in seconds
\* around the two ends of the session
MarketClocks ==
    [weekday : 0..6,
     tod : {0, MarketOpenHour * 3600 - 1, MarketOpenHour * 3600, MarketOpenHour * 3600 + 1,
            12 * 3600,
            MarketCloseHour * 3600 + MarketCloseMinute * 60 - 1,
            MarketCloseHour * 3600 + MarketCloseMinute * 60,
            MarketCloseHour * 3600 + MarketCloseMinute * 60 + 1,
            24 * 3600 - 1}]

InitMarket ==
    /\ HandlerOff
    /\ sym_in = <<>>
    /\ sym_out = [called |-> FALSE, main |-> "none", kelly |-> "none"]
    /\ kelly_in = NoKellyIn
    /\ kelly_out = [called |-> FALSE, r |-> NoResult]
    /\ market_in \in [now : MarketClocks, raises : BOOLEAN]
    /\ market_out = [called |-> FALSE, open |-> FALSE]
    /\ TokenOff

\* is_kis_market_open()
CheckMarket ==
    /\ ~market_out.called
    /\ market_out' = [called |-> TRUE,
                      open |-> is_kis_market_open(market_in.now, market_in.raises)]
    /\ UNCHANGED <<hvars, sym_in, sym_out, kelly_in, kelly_out, market_in, tvars>>

SpecMarket == InitMarket /\ [][CheckMarket]_vars

\* ------------------------------------------------ the KIS access token cache

\* the wall clock is kept in units of the margin of line 583
TickSeconds == 600
DaySeconds == 86400
FileHours == 24

\* line 583: the cached token is used while its age is below 24 hours less
\* the margin
CacheLife == (DaySeconds - TickSeconds) \div TickSeconds

\* line 565: the file gives the token 24 hours from the moment it is saved
FileLife == (FileHours * 3600) \div TickSeconds

\* the broker's own expiry of a token: 24 hours after it issued it
TokenLife == DaySeconds \div TickSeconds

\* how long the clock runs, and how often the process is started again
MaxClock == 150
MaxRestarts == 1

\* answers of the broker to a token request: a token, HTTP 403, anything else
TokenAnswers == {"token", "403", "error"}

\* the clock starts with the first token
InitToken ==
    /\ HandlerOff
    /\ sym_in = <<>>
    /\ sym_out = [called |-> FALSE, main |-> "none", kelly |-> "none"]
    /\ kelly_in = NoKellyIn
    /\ kelly_out = [called |-> FALSE, r |-> NoResult]
    /\ MarketOff
    /\ TokenOff

\* the broker has issued a token to this deployment
token_issued ==
    \/ kis_access_token # None
    \/ token_file.access_token # None
    \/ token_out.restarts > 0

\* ten minutes pass; what the last call returned is history
TokenTick ==
    /\ token_issued
    /\ clock < MaxClock
    /\ clock' = clock + 1
    /\ token_out' = [token_out EXCEPT !.token = None, !.how = "none"]
    /\ UNCHANGED <<hvars, sym_in, sym_out, kelly_in, kelly_out, mvars,
                   kis_access_token, kis_token_issued_at, token_file>>

\* _load_kis_token_from_file (lines 536-560) finds a token it takes for valid
file_token_valid(raises) ==
    /\ ~raises
    /\ token_file.access_token # None
    /\ clock < token_file.expires_at

\* line 582-583: the cached token is taken for valid
cache_valid ==
    /\ kis_access_token # None
    /\ kis_token_issued_at # None
    /\ clock - kis_token_issued_at < CacheLife

\* get_kis_access_token (lines 577-624). A token is named by the time the
\* broker issued it. load_raises: reading the file fails; answer: what the
\* broker answers; saved: the write of the file succeeds.
GetToken ==
    \E load_raises \in BOOLEAN, answer \in TokenAnswers, saved \in BOOLEAN :
        LET return(token, how) ==
                token_out' = [token_out EXCEPT !.token = token, !.how = how]
        IN /\ IF cache_valid
              THEN /\ return(kis_access_token, "cache")
                   /\ UNCHANGED <<kis_access_token, kis_token_issued_at, token_file>>
              ELSE IF file_token_valid(load_raises)
              THEN /\ kis_access_token' = token_file.access_token
                   /\ kis_token_issued_at' = clock
                   /\ return(token_file.access_token, "file")
                   /\ UNCHANGED token_file
              ELSE IF answer = "403"
              THEN /\ return(kis_access_token, "403")
                   /\ UNCHANGED <<kis_access_token, kis_token_issued_at, token_file>>
              ELSE IF answer = "token"
              THEN /\ kis_access_token' = clock
                   /\ kis_token_issued_at' = clock
                   /\ token_file' = IF saved
                                    THEN [access_token |-> clock,
                                          expires_at |-> clock + FileLife]
                                    ELSE token_file
                   /\ return(clock, "fresh")
              ELSE /\ return(None, "failed")
                   /\ UNCHANGED <<kis_access_token, kis_token_issued_at, token_file>>
           /\ UNCHANGED <<hvars, sym_in, sym_out, kelly_in, kelly_out, mvars, clock>>

\* the process is started again: lines 84-85 reset the globals, the file stays
RestartProcess ==
    /\ token_issued
    /\ token_out.restarts < MaxRestarts
    /\ kis_access_token' = None
    /\ kis_token_issued_at' = None
    /\ token_out' = [token_out EXCEPT !.restarts = @ + 1]
    /\ UNCHANGED <<hvars, sym_in, sym_out, kelly_in, kelly_out, mvars, token_file, clock>>

NextToken == TokenTick \/ GetToken \/ RestartProcess

SpecToken == InitToken /\ [][NextToken]_vars

\* ------------------------------------------------- claims on the sizing call

\* the fields of the except branch's record that the code does not set read
\* as 0 / FALSE in kelly_out.r

\* C1: whenever calculate_dynamic_kelly_fraction returns, the kelly_fraction of
\* its decision record lies in [0.10, 0.50], for every volatility (NaN
\* included), on the normal path and on the error-fallback path.
C1_KellyFractionInBand ==
    kelly_out.called =>
        (10 <= kelly_out.r.kelly_fraction /\ kelly_out.r.kelly_fraction <= 50)

\* C1 witness: a call that returned on the normal path with an undefined
\* (NaN) volatility
C1_Witness_NanVolatility ==
    /\ kelly_out.called
    /\ kelly_out.r.method # "error"
    /\ kelly_out.r.volatility.nan
    /\ kelly_out.r.kelly_fraction = 15

\* C2 (as claimed): for every capital c >= 0 and every outcome of the fetch the
\* returned amount a has 5000 <= a <= c when c >= 5000 and a <= c when c < 5000.
C2_Claim_AmountWithinCapital ==
    kelly_out.called =>
        LET c == kelly_in.available_krw
            a == kelly_out.r.amount
        IN /\ c >= 5000 => (5000 * Jeon <= a /\ a <= c * Jeon)
           /\ c < 5000 => a <= c * Jeon

\* C3: the tier lookup gives 0.40 for v <= 0.01, 0.30 for 0.01 < v <= 0.02,
\* 0.20 for 0.02 < v <= 0.03 and 0.15 for v > 0.03: each boundary belongs to
\* the lower tier, and every volatility gets exactly one of the four fractions.
C3_TierLookup ==
    (kelly_out.called /\ kelly_out.r.method # "error") =>
        LET vol == kelly_out.r.volatility
            t == kelly_out.r.tier_kelly
        IN /\ t \in {40, 30, 20, 15}
           /\ ~vol.nan =>
                /\ vol.v <= 1000 => t = 40
                /\ (1000 < vol.v /\ vol.v <= 2000) => t = 30
                /\ (2000 < vol.v /\ vol.v <= 3000) => t = 20
                /\ vol.v > 3000 => t = 15

\* C3 witness: a volatility exactly on the 0.01 boundary got the 0.40 tier
C3_Witness_OnBoundary ==
    /\ kelly_out.called
    /\ ~kelly_out.r.volatility.nan
    /\ kelly_out.r.volatility.v = 1000
    /\ kelly_out.r.tier_kelly = 40

\* the symbol whose history is asked for
VolSymbolOf(in) ==
    IF Len(in.volatility_symbol) > 0 THEN in.volatility_symbol ELSE in.symbol

\* C5: with no usable price history (the fetch fails, returns no rows or lacks
\* the price column, or the source symbol is classified unrecognized, and then
\* no fetch is attempted) the call raises nothing and sizes with the default
\* volatility 0.02, i.e. with fraction 0.30.
C5_DefaultVolatility ==
    kelly_out.called =>
        LET unrecognized == _detect_symbol_type(VolSymbolOf(kelly_in)) = "unknown"
        IN /\ (unrecognized \/ kelly_in.fetch.kind \in {"error", "empty", "nocolumn"}) =>
                /\ kelly_out.r.method # "error"
                /\ kelly_out.r.volatility = [nan |-> FALSE, v |-> 2000]
                /\ kelly_out.r.tier_kelly = 30
                /\ kelly_out.r.kelly_fraction = 30
                /\ kelly_out.r.amount =
                      Min(Max(kelly_in.available_krw * 30, 5000 * Jeon),
                          kelly_in.available_krw * Jeon)
           /\ unrecognized => kelly_out.r.fetches = 0

\* C5 witness: a recognised source whose frame lacks the price column was
\* sized with the default
C5_Witness_NoColumn ==
    /\ kelly_out.called
    /\ kelly_in.fetch.kind = "nocolumn"
    /\ kelly_out.r.fetches = 1
    /\ kelly_out.r.kelly_fraction = 30

\* ------------------------------------------------ claims on the classifiers

IsAsciiStockCode(s) == Len(s) = 6 /\ \A i \in 1..Len(s) : s[i] \in AsciiDigits

\* C4 (as claimed): both classifiers are total and agree on every string:
\* crypto iff the string contains "-", equity iff it is exactly 6 ASCII digits,
\* unrecognized otherwise.
C4_Claim_Classifiers ==
    sym_out.called =>
        /\ sym_out.main = sym_out.kelly
        /\ sym_out.main \in {"crypto", "stock", "unknown"}
        /\ sym_out.main = "crypto" <=> HasChar(sym_in, "-")
        /\ sym_out.main = "stock" <=> IsAsciiStockCode(sym_in)

\* --------------------------------------------------- claims on the webhook

OrdersOf(w) == {i \in DOMAIN calls[w] : calls[w][i].call \in OrderCallNames}
NoOrder(w) == OrdersOf(w) = {}
KisCallsOf(w) ==
    {i \in DOMAIN calls[w] :
        calls[w][i].call \in {"kis.token", "kis.inquire_balance", "kis.inquire_price",
                              "kis.hashkey", "kis.order_cash"}}
Answer(w, http, status, reason) ==
    pc[w] = "responded" /\ resp[w] = [http |-> http, status |-> status, reason |-> reason]

\* the alert went into the buy path of its exchange
BuyAlert(w) == loc[w].path = "buy" /\ loc[w].symbol_type \in {"crypto", "stock"}
AdapterConfigured(w) ==
    IF loc[w].symbol_type = "crypto" THEN config.upbit ELSE config.kis

\* C6 (as claimed): a buy alert, crypto or equity, received while the
\* instrument is held (position > 0 on a configured exchange whose position
\* query, if made, answers) and duplicate buys are disabled is answered
\* skipped / existing_position, and no order is placed.
C6_Claim_HeldMeansExistingPosition ==
    \A w \in Workers :
        (/\ pc[w] = "responded"
         /\ BuyAlert(w)
         /\ AdapterConfigured(w)
         /\ holding > 0
         /\ ~config.allow_duplicate_buy
         /\ (loc[w].position_read => loc[w].current_position = holding))
        => (Answer(w, 200, "skipped", "existing_position") /\ NoOrder(w))

\* C6 (amended): a buy alert whose position query reports a holding > 0 while
\* duplicate buys are disabled is answered skipped / existing_position at once
\* and places no order; an equity buy reaches that query only after the
\* market check reported open.
C6_ReportedPositionSkipsBuy ==
    \A w \in Workers :
        (/\ BuyAlert(w)
         /\ loc[w].position_read
         /\ loc[w].current_position > 0
         /\ ~config.allow_duplicate_buy)
        => /\ Answer(w, 200, "skipped", "existing_position")
           /\ NoOrder(w)
           /\ loc[w].symbol_type = "stock" => loc[w].market_open

\* C6 witness: an equity buy was skipped on a reported holding
C6_Witness_EquityHoldingSkipped ==
    \E w \in Workers :
        /\ BuyAlert(w)
        /\ loc[w].symbol_type = "stock"
        /\ loc[w].position_read
        /\ loc[w].current_position > 0
        /\ ~config.allow_duplicate_buy
        /\ Answer(w, 200, "skipped", "existing_position")

\* C7: an equity buy alert whose market-hours check reported closed is
\* answered skipped / market_closed, and neither a price query nor an order
\* was made for it.
C7_ClosedMarketSkipsEquityBuy ==
    \A w \in Workers :
        (/\ BuyAlert(w)
         /\ loc[w].symbol_type = "stock"
         /\ loc[w].market_checked
         /\ ~loc[w].market_open)
        => /\ Answer(w, 200, "skipped", "market_closed")
           /\ NoOrder(w)
           /\ \A i \in DOMAIN calls[w] : calls[w][i].call # "kis.inquire_price"

\* C7 witness: an equity buy for a held instrument was skipped on a closed
\* market
C7_Witness_ClosedMarket ==
    \E w \in Workers :
        /\ BuyAlert(w)
        /\ loc[w].symbol_type = "stock"
        /\ loc[w].market_checked
        /\ ~loc[w].market_open
        /\ holding > 0
        /\ Answer(w, 200, "skipped", "market_closed")

\* the fraction of the tier a volatility lies in, in percent
C8_TierFraction(volatility) ==
    IF volatility.nan THEN 15
    ELSE IF volatility.v <= 1000 THEN 40
    ELSE IF volatility.v <= 2000 THEN 30
    ELSE IF volatility.v <= 3000 THEN 20
    ELSE 15

\* C8: a crypto buy alert that passed all gates with capital c and was sized
\* with a volatility in the tier of fraction t has placed exactly one order,
\* a market buy on Upbit for min(max(c * t, 5000), c), and has made no call to
\* KIS.
C8_CryptoBuyOrder ==
    \A w \in Workers :
        (/\ pc[w] = "responded"
         /\ BuyAlert(w)
         /\ loc[w].symbol_type = "crypto"
         /\ loc[w].sized
         /\ loc[w].kelly.method # "error")
        => LET c == loc[w].available_krw
               t == C8_TierFraction(loc[w].kelly.volatility)
               expected == IF c * t < 5000 * Jeon THEN 5000 * Jeon
                           ELSE IF c * t > c * Jeon THEN c * Jeon
                           ELSE c * t
           IN /\ Cardinality(OrdersOf(w)) = 1
              /\ \A i \in OrdersOf(w) :
                    /\ calls[w][i].call = "upbit.buy_market_order"
                    /\ calls[w][i].amount = expected
              /\ KisCallsOf(w) = {}

\* C8 witness: capital 1,000,000 and a fetched volatility of about 0.015 gave
\* a successful market buy for 300,000 KRW
C8_Witness_ThreeHundredThousand ==
    \E w \in Workers :
        /\ Answer(w, 200, "success", "none")
        /\ BuyAlert(w)
        /\ loc[w].symbol_type = "crypto"
        /\ loc[w].available_krw = 1000000
        /\ ~loc[w].kelly.default_used
        /\ loc[w].kelly.volatility.v > 1400 /\ loc[w].kelly.volatility.v < 1600
        /\ \E i \in OrdersOf(w) :
              /\ calls[w][i].call = "upbit.buy_market_order"
              /\ calls[w][i].amount = 300000 * Jeon

\* the symbol of an alert is one the claims call recognized
RecognizedSymbol(a) ==
    /\ a.symbol.t = "str"
    /\ (HasChar(a.symbol.s, "-") \/ IsAsciiStockCode(a.symbol.s))

\* the kind the claims give an alert name: the lower-cased name, or the empty
\* name of an alert that has none
ClaimedKind(a) ==
    LET name == IF a.alert_name.t = "str" THEN lower(a.alert_name.s) ELSE <<>>
    IN IF contains(name, s_buy) THEN "buy"
       ELSE IF contains(name, s_exit) \/ contains(name, s_sell) THEN "exit"
       ELSE "manual"

\* C9 (as claimed): of the alerts that are JSON objects, one with a wrong
\* passphrase is answered 401 with nothing else done; with the right
\* passphrase a missing symbol, an unrecognized symbol, a manual alert without
\* side or quantity and a manual alert with a quantity <= 0 are answered 400;
\* none of them places an order.
C9_Claim_Rejections ==
    \A w \in Workers :
        (pc[w] = "responded" /\ alert[w].body = "object") =>
            LET a == alert[w]
                authentic == a.passphrase = "ok"
                manual == RecognizedSymbol(a) /\ ClaimedKind(a) = "manual"
            IN /\ ~authentic => (resp[w].http = 401 /\ calls[w] = <<>>)
               /\ (authentic /\ a.symbol.t = "absent")
                     => (resp[w].http = 400 /\ NoOrder(w))
               /\ (authentic /\ a.symbol.t # "absent" /\ ~RecognizedSymbol(a))
                     => (resp[w].http = 400 /\ NoOrder(w))
               /\ (authentic /\ manual /\ (a.side.t = "absent" \/ a.quantity.t = "absent"))
                     => (resp[w].http = 400 /\ NoOrder(w))
               /\ (authentic /\ manual /\ a.quantity.t = "num" /\ a.quantity.n <= 0)
                     => (resp[w].http = 400 /\ NoOrder(w))

\* C10 (as claimed): every authentic alert with a recognized symbol is
\* handled by the path of its name, read case-insensitively: buy if it
\* contains "buy", else exit if it contains "exit" or "sell", else (also with
\* no name at all) manual; the manual path sizes nothing and answers 400
\* without an order when side or quantity is missing.
C10_Claim_AlertKindResolution ==
    \A w \in Workers :
        (/\ pc[w] \notin {"off", "idle"}
         /\ alert[w].body = "object"
         /\ alert[w].passphrase = "ok"
         /\ RecognizedSymbol(alert[w]))
        => LET a == alert[w]
           IN /\ loc[w].path = ClaimedKind(a)
              /\ ClaimedKind(a) = "manual" =>
                    /\ ~loc[w].sized
                    /\ \A i \in DOMAIN calls[w] :
                          calls[w][i].call \notin {"pyupbit.get_ohlcv", "yfinance.history"}
                    /\ (a.side.t = "absent" \/ a.quantity.t = "absent")
                          => (Answer(w, 400, "error", "missing_field") /\ NoOrder(w))

\* the journal updates issued for the alert's record, in order
StatusUpdates(w) ==
    SelectSeq(calls[w], LAMBDA c : c.call = "notion.pages.update")

\* the capital read by the buy path lies below the minimum of its exchange
BelowMinimum(w) ==
    /\ BuyAlert(w)
    /\ loc[w].balance_read
    /\ loc[w].available_krw < (IF loc[w].symbol_type = "crypto" THEN 5000 ELSE 10000)

\* C11 (as claimed): a buy alert whose available capital is below the minimum
\* of its exchange (5000 crypto, 10000 equity) is answered with status
\* "skipped", its journal record is set to Skipped, and no order is placed.
C11_Claim_BelowMinimumSkipped ==
    \A w \in Workers :
        BelowMinimum(w) =>
            /\ pc[w] = "responded"
            /\ resp[w].http = 200
            /\ resp[w].status = "skipped"
            /\ loc[w].page_id =>
                  \E i \in DOMAIN calls[w] :
                      calls[w][i].call = "notion.pages.update"
                      /\ calls[w][i].status = "Skipped"
            /\ NoOrder(w)

\* C11 (amended): a buy alert whose available capital is below the minimum
\* of its exchange is rejected with HTTP 400, every status update issued for
\* its journal record asks for Error (and one is issued if the record
\* exists), and no order is placed.
C11_BelowMinimumRejected ==
    \A w \in Workers :
        BelowMinimum(w) =>
            /\ Answer(w, 400, "error", "insufficient_balance")
            /\ \A i \in DOMAIN StatusUpdates(w) : StatusUpdates(w)[i].status = "Error"
            /\ loc[w].page_id => Len(StatusUpdates(w)) > 0
            /\ NoOrder(w)

\* C11 witness: an equity buy with 9999 KRW and a journal record was rejected
C11_Witness_EquityBelowMinimum ==
    \E w \in Workers :
        /\ BelowMinimum(w)
        /\ loc[w].symbol_type = "stock"
        /\ loc[w].available_krw = 9999
        /\ loc[w].page_id
        /\ Answer(w, 400, "error", "insufficient_balance")

\* C12: in the equity buy path the quantity is floor(sized amount / current
\* price); a quantity of zero is answered 400 with no order, and every order
\* placed is a buy of exactly that quantity.
C12_EquityWholeShares ==
    \A w \in Workers :
        (BuyAlert(w) /\ loc[w].symbol_type = "stock" /\ loc[w].current_price > 0) =>
            LET amount == loc[w].kelly.amount
                cost == loc[w].current_price * Jeon
                q == loc[w].quantity
            IN /\ q >= 0
               /\ q * cost <= amount
               /\ amount < (q + 1) * cost
               /\ q = 0 => (Answer(w, 400, "error", "insufficient_amount") /\ NoOrder(w))
               /\ \A i \in OrdersOf(w) :
                     /\ calls[w][i].call = "kis.order_cash"
                     /\ calls[w][i].side = "buy"
                     /\ calls[w][i].amount = q

\* C12 witness: 300,000 KRW at 70,000 KRW a share bought 4 shares
C12_Witness_FourShares ==
    \E w \in Workers :
        /\ BuyAlert(w)
        /\ loc[w].symbol_type = "stock"
        /\ loc[w].kelly.amount = 300000 * Jeon
        /\ loc[w].current_price = 70000
        /\ loc[w].quantity = 4
        /\ Answer(w, 200, "success", "none")
        /\ \E i \in OrdersOf(w) : calls[w][i].amount = 4

\* C12 witness of the rejected case: the amount buys no share, 400 is answered
C12_Witness_ZeroShares ==
    \E w \in Workers :
        /\ BuyAlert(w)
        /\ loc[w].symbol_type = "stock"
        /\ loc[w].current_price = 70000
        /\ loc[w].quantity = 0
        /\ Answer(w, 400, "error", "insufficient_amount")

\* the last status update issued for the alert's journal record asks for Error
JournalSetToError(w) ==
    /\ Len(StatusUpdates(w)) > 0
    /\ StatusUpdates(w)[Len(StatusUpdates(w))].status = "Error"

\* the order placement of the alert failed: place_kis_order returned no
\* result, or place_upbit_order raised
EquityOrderFailed(w) == loc[w].symbol_type = "stock" /\ loc[w].trade_details = "None"
CryptoOrderRaised(w) ==
    /\ loc[w].symbol_type = "crypto"
    /\ loc[w].trade_details \in {"Exception", "AttributeError", "ValueError"}

\* C13 (as claimed): whenever the order placement fails (the equity adapter
\* returns no result, or the crypto adapter raises an error) the response is
\* HTTP 500 and the alert's journal record, if there is one, is set to Error.
C13_Claim_OrderFailureIs500 ==
    \A w \in Workers :
        (EquityOrderFailed(w) \/ CryptoOrderRaised(w)) =>
            /\ pc[w] = "responded"
            /\ resp[w].http = 500
            /\ loc[w].page_id => JournalSetToError(w)

\* C13 (amended): an equity order without a result and a crypto order whose
\* adapter raises anything but a ValueError are answered 500 with the journal
\* record, if there is one, set to Error; the ValueError that
\* place_upbit_order raises for a side that is neither buy nor sell is
\* answered 400, before any order call and on a path that has no journal
\* record.
C13_OrderFailureStatus ==
    \A w \in Workers :
        (EquityOrderFailed(w) \/ CryptoOrderRaised(w)) =>
            /\ pc[w] = "responded"
            /\ resp[w].status = "error"
            /\ resp[w].http = (IF loc[w].trade_details = "ValueError" THEN 400 ELSE 500)
            /\ loc[w].page_id => JournalSetToError(w)
            /\ loc[w].trade_details = "ValueError" =>
                  (loc[w].path = "manual" /\ NoOrder(w) /\ ~loc[w].page_id)

\* C13 witness: an equity buy whose order was refused by the broker was
\* answered 500 and its journal record set to Error
C13_Witness_EquityOrderRefused ==
    \E w \in Workers :
        /\ EquityOrderFailed(w)
        /\ BuyAlert(w)
        /\ loc[w].page_id
        /\ \E i \in OrdersOf(w) : calls[w][i].out = "rejected"
        /\ resp[w].http = 500
        /\ JournalSetToError(w)

\* the alert went into the exit path of its exchange
ExitAlert(w) == loc[w].path = "exit" /\ loc[w].symbol_type \in {"crypto", "stock"}

\* C14: for an exit alert, a position query reporting a holding <= 0 is
\* answered skipped / no_position with no order; a reported holding > 0 (for
\* an equity read only after the market check reported open) leads to one
\* sell order on the matching adapter for the entire holding and to no other
\* order (an equity order that fails before it is sent leaves none); an equity
\* exit on a closed market places no order.
C14_ExitSellsWholeHolding ==
    \A w \in Workers :
        ExitAlert(w) =>
            /\ (loc[w].position_read /\ loc[w].current_position <= 0)
                  => (Answer(w, 200, "skipped", "no_position") /\ NoOrder(w))
            /\ (loc[w].position_read /\ loc[w].current_position > 0) =>
                  /\ pc[w] = "responded"
                  /\ Cardinality(OrdersOf(w)) <= 1
                  /\ \A i \in OrdersOf(w) :
                        /\ calls[w][i].call =
                              (IF loc[w].symbol_type = "crypto"
                               THEN "upbit.sell_market_order" ELSE "kis.order_cash")
                        /\ calls[w][i].side = "sell"
                        /\ calls[w][i].amount = loc[w].current_position
                  /\ (loc[w].symbol_type = "crypto" \/ resp[w].status = "success")
                        => Cardinality(OrdersOf(w)) = 1
                  /\ resp[w].status = "success" => loc[w].trade_details # "unset"
            /\ loc[w].symbol_type = "stock" =>
                  /\ loc[w].position_read => loc[w].market_open
                  /\ (loc[w].market_checked /\ ~loc[w].market_open)
                        => (Answer(w, 200, "skipped", "market_closed") /\ NoOrder(w))

\* C14 witness: an equity exit on an open market sold the whole holding
C14_Witness_EquitySoldAll ==
    \E w \in Workers :
        /\ ExitAlert(w)
        /\ loc[w].symbol_type = "stock"
        /\ loc[w].market_open
        /\ loc[w].current_position = 3
        /\ Answer(w, 200, "success", "none")
        /\ \E i \in OrdersOf(w) : calls[w][i].side = "sell" /\ calls[w][i].amount = 3

\* the alert is malformed: its body is JSON but no object, or its alert_name
\* is no string, or its quantity is null or not a number, or its side is no
\* string
Malformed(a) ==
    \/ a.body = "array"
    \/ /\ a.body = "object"
       /\ \/ a.alert_name.t \notin {"absent", "str"}
          \/ a.quantity.t \in {"null", "text"}
          \/ a.side.t \notin {"absent", "str"}

\* C16 (as claimed): every malformed alert is answered with a 4xx status,
\* never with 5xx.
C16_Claim_MalformedIs4xx ==
    \A w \in Workers :
        (pc[w] = "responded" /\ Malformed(alert[w])) =>
            (400 <= resp[w].http /\ resp[w].http < 500)

\* the sizing call fetched from a recognised source
FetchedFrom(in) == _detect_symbol_type(VolSymbolOf(in)) \in {"crypto", "stock"}

\* C17 (as claimed): a fetched price history of exactly one price point is
\* sized with the default volatility 0.02 and the fraction 0.30.
C17_Claim_OnePointIsDefault ==
    (/\ kelly_out.called
     /\ FetchedFrom(kelly_in)
     /\ kelly_in.fetch.kind = "rows"
     /\ Len(kelly_in.fetch.closes) = 1)
    => /\ kelly_out.r.volatility = [nan |-> FALSE, v |-> 2000]
       /\ kelly_out.r.kelly_fraction = 30

\* C18: when an exception occurs inside calculate_dynamic_kelly_fraction (the
\* change series of a fetched, non-numeric price column) the call returns
\* max(available capital * 0.25, 5000) with a record tagged error and the
\* fraction 0.25.
C18_ErrorFallback ==
    (/\ kelly_out.called
     /\ FetchedFrom(kelly_in)
     /\ kelly_in.fetch.kind = "nonnumeric")
    => /\ kelly_out.r.method = "error"
       /\ kelly_out.r.kelly_fraction = 25
       /\ kelly_out.r.amount =
             (IF kelly_in.available_krw * 25 >= 5000 * Jeon
              THEN kelly_in.available_krw * 25 ELSE 5000 * Jeon)

\* C18 witness: with a capital of 2499 KRW the fallback returned 5000 KRW
C18_Witness_FloorAboveCapital ==
    /\ kelly_out.called
    /\ kelly_in.available_krw = 2499
    /\ kelly_out.r.method = "error"
    /\ kelly_out.r.amount = 5000 * Jeon

\* ---- C15

SameButPage(l, m) == [l EXCEPT !.page_id = FALSE] = [m EXCEPT !.page_id = FALSE]

JournalCallFailed(w) ==
    \E i \in DOMAIN calls[w] :
        calls[w][i].call \in JournalCallNames /\ calls[w][i].out = "raise"

\* C15: the HTTP status, the response body and the calls made to the
\* exchanges (the orders among them) are the same whether the journal is not
\* configured, or its create and update calls succeed or fail: a run with a
\* journal, given the alert and the exchange answers of a run without one,
\* ends with the same response, the same locals that make the body and the
\* same exchange calls.
C15_JournalNeverInfluences ==
    (pc[1] = "responded" /\ pc[2] = "responded") =>
        /\ resp[2] = resp[1]
        /\ NonJournal(calls[2]) = NonJournal(calls[1])
        /\ SameButPage(loc[2], loc[1])

\* an order placed and answered although a journal call failed
C15_Witness_OrderedWithFailedJournal ==
    /\ pc[2] = "responded" /\ config.notion
    /\ JournalCallFailed(2)
    /\ ~NoOrder(2)
    /\ resp[2].http = 200

\* ---- C19

\* the request has read the position, passed the gate and not yet answered
PastGate(w) == pc[w] \in {"buy_crypto_balance", "buy_crypto_size", "buy_crypto_order"}

\* the request placed a buy order and answered success
Bought(w) == Answer(w, 200, "success", "none") /\ ~NoOrder(w)

CreatedPlaced(w) ==
    \A i \in DOMAIN calls[w] :
        calls[w][i].call = "notion.pages.create" => calls[w][i].status = "Placed"

\* C20 (as claimed): within one alert at most one status update is issued for
\* the journal record (after Filled or Error none follows), so the status
\* sequences are Placed -> Filled, Placed -> Skipped and Placed -> Error.
C20_Claim_OneStatusUpdate ==
    \A w \in Workers :
        /\ CreatedPlaced(w)
        /\ Len(StatusUpdates(w)) <= 1
        /\ \A i \in DOMAIN StatusUpdates(w) :
              StatusUpdates(w)[i].status \in {"Filled", "Skipped", "Error"}

\* What does hold of the status updates of one alert: all of them ask for the
\* same status, one of Filled, Skipped and Error, so a status once set is
\* never changed; Filled and Skipped are issued once, Error once or twice
\* (twice when the capital gate rejects the alert).
C20_StatusNeverChanges ==
    \A w \in Workers :
        LET u == StatusUpdates(w)
        IN /\ CreatedPlaced(w)
           /\ \A i \in DOMAIN u : u[i].status \in {"Filled", "Skipped", "Error"}
           /\ \A i, j \in DOMAIN u : u[i].status = u[j].status
           /\ Len(u) <= 2
           /\ Len(u) = 2 => (u[1].status = "Error" /\ BelowMinimum(w))
           /\ Len(u) > 0 => (loc[w].page_id /\ pc[w] = "responded")

\* a crypto buy below the minimum issued the Error update twice
C20_Witness_ErrorTwice ==
    \E w \in Workers :
        /\ BuyAlert(w)
        /\ loc[w].symbol_type = "crypto"
        /\ pc[w] = "responded"
        /\ Len(StatusUpdates(w)) = 2
        /\ StatusUpdates(w)[1].status = "Error"
        /\ StatusUpdates(w)[2].status = "Error"

\* ---- C21

\* the alert took the buy or exit path and its journal record exists
Journaled(w) == (BuyAlert(w) \/ ExitAlert(w)) /\ loc[w].page_id

\* C21 (as claimed): once a buy or exit alert whose journal record was created
\* is answered, an update of the record to Filled, Skipped or Error has been
\* issued.
C21_Claim_RecordLeavesPlaced ==
    \A w \in Workers :
        (Journaled(w) /\ pc[w] = "responded") =>
            \E i \in DOMAIN StatusUpdates(w) :
                StatusUpdates(w)[i].status \in {"Filled", "Skipped", "Error"}

\* ---- C22

\* the alert was authenticated and its symbol recognized: it took one of the
\* three paths on one of the two exchanges
Routed(w) ==
    loc[w].path \in {"buy", "exit", "manual"} /\ loc[w].symbol_type \in {"crypto", "stock"}

\* C22 (as claimed): with the journal configured, every authenticated alert
\* with a recognized symbol, on the buy, exit or manual path, issues the
\* creation of a journal record with status Placed before any call to an
\* exchange adapter.
C22_Claim_EveryAttemptJournaled ==
    \A w \in Workers :
        (config.notion /\ Routed(w)) =>
            \A i \in DOMAIN calls[w] :
                calls[w][i].call \notin JournalCallNames =>
                    \E j \in 1..(i - 1) :
                        /\ calls[w][j].call = "notion.pages.create"
                        /\ calls[w][j].status = "Placed"

\* ---- C23

FetchNames == {"pyupbit.get_ohlcv", "yfinance.history"}
FetchesOf(w) == {i \in DOMAIN calls[w] : calls[w][i].call \in FetchNames}

\* the gates of the alert's exchange have passed: the adapter is configured,
\* (equity) the market was found open, the position read shows no existing
\* position, the capital read reaches the minimum
GatesPassed(w) ==
    /\ AdapterConfigured(w)
    /\ loc[w].symbol_type = "stock" => (loc[w].market_checked /\ loc[w].market_open)
    /\ loc[w].position_read /\ ~existing_position(loc[w].current_position)
    /\ loc[w].balance_read
    /\ loc[w].available_krw >=
          (IF loc[w].symbol_type = "crypto" THEN MinCryptoKrw ELSE MinStockKrw)

\* C23: sizing, and the volatility fetch it makes, happens only in the buy
\* path, only after every gate of the exchange has passed and before the
\* order: while the gates are being taken nothing is sized, fetched or
\* ordered, a buy order is placed only after sizing and after the fetch, and
\* exit and manual alerts never size or fetch.
C23_SizingAfterGatesBeforeOrder ==
    \A w \in Workers :
        /\ (loc[w].sized \/ FetchesOf(w) # {}) =>
              (BuyAlert(w) /\ loc[w].sized /\ GatesPassed(w))
        /\ pc[w] \in {"buy_crypto", "buy_crypto_balance", "buy_crypto_size",
                      "buy_stock", "buy_stock_position", "buy_stock_cash",
                      "buy_stock_size"} =>
              (~loc[w].sized /\ FetchesOf(w) = {} /\ NoOrder(w))
        /\ pc[w] \in {"buy_crypto_order", "buy_stock_price", "buy_stock_order"} =>
              (loc[w].sized /\ NoOrder(w))
        /\ (BuyAlert(w) /\ ~NoOrder(w)) =>
              /\ loc[w].sized
              /\ \A i \in OrdersOf(w), j \in FetchesOf(w) : j < i
        /\ (loc[w].path \in {"exit", "manual"}) =>
              (~loc[w].sized /\ FetchesOf(w) = {})

\* an equity buy fetched the history, was sized and then placed its order
C23_Witness_FetchedSizedOrdered ==
    \E w \in Workers :
        /\ BuyAlert(w) /\ loc[w].symbol_type = "stock"
        /\ loc[w].sized
        /\ \E i \in OrdersOf(w), j \in FetchesOf(w) : j < i
        /\ Answer(w, 200, "success", "none")

\* ---- C24

\* the order call came back without an order
FailedOrders(w) ==
    {i \in OrdersOf(w) : calls[w][i].out \notin {"result", "ok"}}

\* C24: for one alert at most one order call is made to an exchange adapter;
\* after the order call, failed or not, no exchange is called again for the
\* alert (only journal updates follow) and the alert is answered.
C24_AtMostOneOrder ==
    \A w \in Workers :
        /\ Cardinality(OrdersOf(w)) <= 1
        /\ \A i \in OrdersOf(w) :
              /\ pc[w] = "responded"
              /\ \A j \in DOMAIN calls[w] :
                    j > i => calls[w][j].call \in JournalCallNames

\* an order call failed and the alert was answered with that one attempt
C24_Witness_FailedOrderNotRetried ==
    \E w \in Workers :
        /\ pc[w] = "responded"
        /\ FailedOrders(w) # {}
        /\ resp[w].http = 500

\* ---- C25

\* C25 (as claimed): get_kis_access_token returns a token only within 24
\* hours of its issuance by the broker, whether the token came from the
\* broker or from the token file; past that it requests a fresh one.
C25_Claim_ExpiredTokenNeverReturned ==
    token_out.token # None => clock - token_out.token < TokenLife

\* ---- C26

C27_BuyOrderWithinCapital ==
    \A w \in Workers :
        BuyAlert(w) =>
            \A i \in OrdersOf(w) :
                /\ loc[w].balance_read /\ loc[w].sized
                /\ calls[w][i].side = "buy"
                /\ loc[w].symbol_type = "crypto" =>
                      /\ calls[w][i].amount = loc[w].kelly.amount
                      /\ 5000 * Jeon <= calls[w][i].amount
                      /\ calls[w][i].amount <= loc[w].available_krw * Jeon
                /\ loc[w].symbol_type = "stock" =>
                      /\ calls[w][i].amount >= 1
                      /\ calls[w][i].amount * loc[w].current_price * Jeon
                            <= loc[w].kelly.amount
                      /\ loc[w].kelly.amount <= loc[w].available_krw * Jeon

\* a crypto buy was placed for an amount of the error fallback
C27_Witness_FallbackOrder ==
    \E w \in Workers :
        /\ BuyAlert(w) /\ loc[w].symbol_type = "crypto"
        /\ loc[w].kelly.method = "error"
        /\ \E i \in OrdersOf(w) : calls[w][i].amount = loc[w].kelly.amount
        /\ Answer(w, 200, "success", "none")

\* ---- C28

\* the position query, the first query the buy path sends to the exchange,
\* was answered
PositionQueryAnswered(w) ==
    \E i \in DOMAIN calls[w] :
        /\ calls[w][i].call \in {"upbit.get_balances", "kis.inquire_balance"}
        /\ calls[w][i].out = "ok"
        /\ \A j \in 1..(i - 1) : calls[w][j].call \in JournalCallNames \cup {"kis.token"}

\* C28 (as claimed): with duplicate buys disabled, a buy order is placed only
\* if the position query was answered and reported a holding of zero.
C28_Claim_FailedQueryBlocksBuy ==
    \A w \in Workers :
        (BuyAlert(w) /\ ~config.allow_duplicate_buy /\ ~NoOrder(w)) =>
            (PositionQueryAnswered(w) /\ loc[w].current_position = 0)

\* ---- C29

\* C29 (as claimed): an alert is answered success, and its journal record set
\* to Filled, only if the exchange adapter returned an order result.
C29_Claim_SuccessMeansOrderResult ==
    \A w \in Workers :
        /\ (pc[w] = "responded" /\ resp[w].status = "success") =>
              loc[w].trade_details = "dict"
        /\ (\E i \in DOMAIN StatusUpdates(w) : StatusUpdates(w)[i].status = "Filled") =>
              loc[w].trade_details = "dict"

\* ---- C30

\* C30 (as claimed): a manual alert places an order only when its side is
\* "buy" or "sell" in any letter case, and then an order of that side.
C30_Claim_ManualSideIsBuyOrSell ==
    \A w \in Workers :
        (loc[w].path = "manual" /\ ~NoOrder(w)) =>
            /\ alert[w].side.t = "str"
            /\ lower(alert[w].side.s) \in {s_buy, s_sell}
            /\ \A i \in OrdersOf(w) :
                  calls[w][i].side = (IF lower(alert[w].side.s) = s_buy THEN "buy" ELSE "sell")

====
